---- MODULE Spec2Model ----
(***************************************************************************)
(* Model of terraform-provider-azurekv: the Key Vault secret resource      *)
(* (Create / Read / Update / Delete / ImportState / ModifyPlan), the       *)
(* secret data source, the version lookup of the client and the record     *)
(* builder setSecretData.  The Key Vault service and the Terraform plugin  *)
(* framework are the environment: the vault keeps, per secret name, the    *)
(* list of versions it has minted; the framework hands the handlers their  *)
(* request (config, plan, prior state) and stores what they respond.       *)
(***************************************************************************)
EXTENDS Integers, Sequences, FiniteSets, TLC

(***************************************************************************)
(* Bounds of the model.                                                    *)
(***************************************************************************)
\* versions the vault mints in one behaviour
MaxMint == 2
\* entries of a version listing drawn for the lookup
MaxEntries == 3
\* pages such a listing is cut into
MaxPages == 3

(***************************************************************************)
(* Attribute values of the plugin framework: basetypes.StringValue,        *)
(* Int32Value, MapValue and timetypes.RFC3339 are a state (null, unknown,  *)
(* known) and a value; the value of a null or unknown attribute is the     *)
(* zero value, which is what ValueString() and ValueInt32() return.        *)
(***************************************************************************)
StringNull == [st |-> "null", v |-> ""]
StringUnknown == [st |-> "unknown", v |-> ""]
StringValue(s) == [st |-> "known", v |-> s]

Int32Null == [st |-> "null", v |-> 0]
Int32Unknown == [st |-> "unknown", v |-> 0]
Int32Value(n) == [st |-> "known", v |-> n]

MapNull == [st |-> "null", v |-> {}]
MapValue(m) == [st |-> "known", v |-> m]

IsNull(a) == a.st = "null"
IsUnknown(a) == a.st = "unknown"
ValueString(a) == a.v
ValueInt32(a) == a.v

\* Go pointers (*string, *time.Time, map): nil or a value
Nil == [nil |-> TRUE, v |-> ""]
NilTime == [nil |-> TRUE, v |-> 0]
NilMap == [nil |-> TRUE, v |-> {}]
Ptr(x) == [nil |-> FALSE, v |-> x]

\* types.String.ValueStringPointer(): nil for null, else the address of the value
ValueStringPointer(a) == IF IsNull(a) THEN Nil ELSE Ptr(a.v)

(***************************************************************************)
(* Strings.                                                                *)
(***************************************************************************)
HasSuffix(s, p) == Len(s) >= Len(p) /\ SubSeq(s, Len(s) - Len(p) + 1, Len(s)) = p
\* a faulty trimming that leaves the suffix on
TrimSuffixKeeping(s, p) == s
TrimSuffix(s, p) == IF HasSuffix(s, p) THEN SubSeq(s, 1, Len(s) - Len(p)) ELSE s

\* the index of the first "/" of s at or after i, Len(s) + 1 when there is none
RECURSIVE IndexSlash(_, _)
IndexSlash(s, i) ==
    IF i > Len(s) THEN Len(s) + 1
    ELSE IF SubSeq(s, i, i) = "/" THEN i
    ELSE IndexSlash(s, i + 1)

\* strings.Split(s, "/")
RECURSIVE SplitSlash(_)
SplitSlash(s) ==
    LET j == IndexSlash(s, 1)
    IN  IF j > Len(s) THEN <<s>>
        ELSE <<SubSeq(s, 1, j - 1)>> \o SplitSlash(SubSeq(s, j + 1, Len(s)))

\* the literal lit stands in s at index i
LitAt(s, i, lit) == i + Len(lit) - 1 <= Len(s) /\ SubSeq(s, i, i + Len(lit) - 1) = lit

\* the regular expression's "." at index i of s: any one character but a newline
AnyAt(s, i) == i <= Len(s) /\ SubSeq(s, i, i) # "\n"

Max(S) == CHOOSE x \in S : \A y \in S : y <= x

(***************************************************************************)
(* Identity codec.                                                         *)
(***************************************************************************)
\* keyVaultIDRegex:
\*   \A/subscriptions/[^/]+/resourceGroups/[^/]+/providers/Microsoft.KeyVault/vaults/([^/]+)\z
\* [^/]+ is followed by a literal "/", so each run ends at the next "/".
extractVaultName(keyVaultID) ==
    LET s == keyVaultID
        i1 == Len("/subscriptions/") + 1
        j1 == IndexSlash(s, i1)
        i2 == j1 + Len("/resourceGroups/")
        j2 == IndexSlash(s, i2)
        d == j2 + Len("/providers/Microsoft")
        i3 == d + 1 + Len("KeyVault/vaults/")
        j3 == IndexSlash(s, i3)
        ok == /\ LitAt(s, 1, "/subscriptions/")
              /\ j1 > i1
              /\ LitAt(s, j1, "/resourceGroups/")
              /\ j2 > i2
              /\ LitAt(s, j2, "/providers/Microsoft")
              /\ AnyAt(s, d)
              /\ LitAt(s, d + 1, "KeyVault/vaults/")
              /\ j3 > i3
              /\ j3 = Len(s) + 1
    IN  IF ok THEN [err |-> "", name |-> SubSeq(s, i3, Len(s))]
        ELSE [err |-> "invalid key vault ID", name |-> ""]

\* idRegex: \Ahttps://([^/]+)\.vault.azure.net/secrets/([^/]+)
\* The first group is greedy: the longest run that lets the rest match.
extractVaultNameAndName(id) ==
    LET s == id
        i0 == Len("https://") + 1
        rest(e) == /\ LitAt(s, e + 1, ".vault")
                   /\ AnyAt(s, e + 7)
                   /\ LitAt(s, e + 8, "azure")
                   /\ AnyAt(s, e + 13)
                   /\ LitAt(s, e + 14, "net/secrets/")
                   /\ IndexSlash(s, e + 26) > e + 26
        ends == IF LitAt(s, 1, "https://")
                THEN {e \in i0 .. (IndexSlash(s, i0) - 1) : rest(e)}
                ELSE {}
    IN  IF ends = {} THEN [err |-> "invalid ID", vaultName |-> "", name |-> ""]
        ELSE LET e == Max(ends)
             IN  [err |-> "",
                  vaultName |-> SubSeq(s, i0, e),
                  name |-> SubSeq(s, e + 26, IndexSlash(s, e + 26) - 1)]

\* azsecrets.ID: the path of the URL is /secrets/{name}[/{version}]
IDPath(id) == SplitSlash(id)
parseID(id) ==
    LET path == IDPath(id)
    IN  [name |-> IF Len(path) >= 5 THEN path[5] ELSE "",
         version |-> IF Len(path) >= 6 THEN path[6] ELSE ""]

\* the identifiers the vault of the model hands out, parsed once
VaultURL == "https://kv.vault.azure.net"
Names == {"s1"}
\* the version identifiers the vault hands out, in the order it mints them
VersionIDs == <<"f3a", "0b7", "c52", "9de", "41c", "a08">>
\* a version some other party stored before the resource came to manage the secret
ForeignVersion == "e77"
SecretID(name, version) == VaultURL \o "/secrets/" \o name \o "/" \o version
VaultIDs ==
    {SecretID(n, v) : n \in Names, v \in {VersionIDs[i] : i \in DOMAIN VersionIDs} \cup {ForeignVersion}}
parsedVaultIDs == [id \in VaultIDs |-> parseID(id)]
\* a faulty reading of the name out of a secret ID: the whole path
IDNamePath(id) == IDPath(id)[1] \o "/" \o IDPath(id)[2]
IDName(id) == IF id \in VaultIDs THEN parsedVaultIDs[id].name ELSE parseID(id).name
IDVersion(id) == IF id \in VaultIDs THEN parsedVaultIDs[id].version ELSE parseID(id).version

(***************************************************************************)
(* Version lookup of the client.  A listing is a sequence of pages; a      *)
(* page is either a failed fetch or the entries it carries.                *)
(***************************************************************************)
NilSecret == [nil |-> TRUE]

\* a faulty variant of the walk, which forgets its candidate when it turns to
\* a page that carries entries: the properties of the lookup must tell it apart
RECURSIVE walkPagesForgetful(_, _, _, _, _)
walkPagesForgetful(pages, version, p, i, latest) ==
    IF p > Len(pages)
    THEN IF latest.nil
         THEN [err |-> "not found", secret |-> [nil |-> TRUE]]
         ELSE [err |-> "", secret |-> latest]
    ELSE IF pages[p].err
    THEN [err |-> "upstream", secret |-> [nil |-> TRUE]]
    ELSE IF i > Len(pages[p].Value)
    THEN walkPagesForgetful(pages, version, p + 1, 1, latest)
    ELSE LET secret == pages[p].Value[i]
         IN  IF version # "" /\ version # IDVersion(secret.ID)
             THEN [err |-> "", secret |-> Ptr(secret)]
             ELSE IF i = 1 \/ latest.nil \/ secret.Created > latest.v.Created
             THEN walkPagesForgetful(pages, version, p, i + 1, Ptr(secret))
             ELSE walkPagesForgetful(pages, version, p, i + 1, latest)

\* a faulty variant of the walk, which answers the candidate it holds when
\* the fetch of a page fails
RECURSIVE walkPagesPartial(_, _, _, _, _)
walkPagesPartial(pages, version, p, i, latest) ==
    IF p > Len(pages)
    THEN IF latest.nil
         THEN [err |-> "not found", secret |-> [nil |-> TRUE]]
         ELSE [err |-> "", secret |-> latest]
    ELSE IF pages[p].err
    THEN IF latest.nil
         THEN [err |-> "upstream", secret |-> [nil |-> TRUE]]
         ELSE [err |-> "", secret |-> latest]
    ELSE IF i > Len(pages[p].Value)
    THEN walkPagesPartial(pages, version, p + 1, 1, latest)
    ELSE LET secret == pages[p].Value[i]
         IN  IF version # "" /\ version # IDVersion(secret.ID)
             THEN [err |-> "", secret |-> Ptr(secret)]
             ELSE IF latest.nil \/ secret.Created > latest.v.Created
             THEN walkPagesPartial(pages, version, p, i + 1, Ptr(secret))
             ELSE walkPagesPartial(pages, version, p, i + 1, latest)

\* a faulty variant of the walk, which replaces its candidate by an entry
\* created at the same instant
RECURSIVE walkPagesLastSeen(_, _, _, _, _)
walkPagesLastSeen(pages, version, p, i, latest) ==
    IF p > Len(pages)
    THEN IF latest.nil
         THEN [err |-> "not found", secret |-> [nil |-> TRUE]]
         ELSE [err |-> "", secret |-> latest]
    ELSE IF pages[p].err
    THEN [err |-> "upstream", secret |-> [nil |-> TRUE]]
    ELSE IF i > Len(pages[p].Value)
    THEN walkPagesLastSeen(pages, version, p + 1, 1, latest)
    ELSE LET secret == pages[p].Value[i]
         IN  IF version # "" /\ version # IDVersion(secret.ID)
             THEN [err |-> "", secret |-> Ptr(secret)]
             ELSE IF latest.nil \/ secret.Created >= latest.v.Created
             THEN walkPagesLastSeen(pages, version, p, i + 1, Ptr(secret))
             ELSE walkPagesLastSeen(pages, version, p, i + 1, latest)

\* the walk of GetSecretProperties over the pages: page p, entry i of it,
\* latest the candidate kept so far
RECURSIVE walkPages(_, _, _, _, _)
walkPages(pages, version, p, i, latest) ==
    IF p > Len(pages)
    THEN IF latest.nil
         THEN [err |-> "not found", secret |-> NilSecret]
         ELSE [err |-> "", secret |-> latest]
    ELSE IF pages[p].err
    THEN [err |-> "upstream", secret |-> NilSecret]
    ELSE IF i > Len(pages[p].Value)
    THEN walkPages(pages, version, p + 1, 1, latest)
    ELSE LET secret == pages[p].Value[i]
         IN  IF version # "" /\ version # IDVersion(secret.ID)
             THEN [err |-> "", secret |-> Ptr(secret)]
             ELSE IF latest.nil \/ secret.Created > latest.v.Created
             THEN walkPages(pages, version, p, i + 1, Ptr(secret))
             ELSE walkPages(pages, version, p, i + 1, latest)

\* the key vault of the model, its identifier parsed once
KeyVaultID == "/subscriptions/sub/resourceGroups/rg/providers/Microsoft.KeyVault/vaults/kv"
parsedKeyVaultID == extractVaultName(KeyVaultID)

\* client.getSecretClient: the error it answers, "" when it answers a client
getSecretClient(keyVaultID) ==
    IF keyVaultID = KeyVaultID THEN parsedKeyVaultID.err
    ELSE extractVaultName(keyVaultID).err

\* client.GetSecretProperties over the pages the service answers
GetSecretProperties(keyVaultID, pages, version) ==
    IF getSecretClient(keyVaultID) # ""
    THEN [err |-> getSecretClient(keyVaultID), secret |-> NilSecret]
    ELSE walkPages(pages, version, 1, 1, NilSecret)

(***************************************************************************)
(* RFC 3339 timestamps of the configuration and the instants they name.    *)
(***************************************************************************)
\* timetypes.RFC3339.ValueRFC3339Time: the instant a timestamp names
ValueRFC3339Time(s) ==
    CASE s = "2025-01-23T01:23:45Z" -> 1
      [] s = "2025-01-23T10:23:45+09:00" -> 1
      [] s = "2026-01-23T01:23:45Z" -> 2
      [] OTHER -> 0

\* time.Time.UTC() rendered by timetypes.NewRFC3339TimePointerValue
RFC3339UTC(t) ==
    CASE t = 1 -> "2025-01-23T01:23:45Z"
      [] t = 2 -> "2026-01-23T01:23:45Z"
      [] OTHER -> "0001-01-01T00:00:00Z"

\* timetypes.RFC3339.StringSemanticEquals: two known timestamps naming the
\* same instant
RFC3339SemanticEquals(a, b) ==
    /\ a.st = "known"
    /\ b.st = "known"
    /\ ValueRFC3339Time(a.v) = ValueRFC3339Time(b.v)

\* the framework's semantic equality over the answer of a handler: an
\* attribute of type timetypes.RFC3339 whose new value names the instant of the
\* prior one (the plan of Create and Update, the prior state of Read, the
\* configuration of a data source) keeps the prior value
SchemaSemanticEquality(prior, new) ==
    [new EXCEPT
        !.not_before_date = IF RFC3339SemanticEquals(prior.not_before_date, @)
                            THEN prior.not_before_date ELSE @,
        !.expiration_date = IF RFC3339SemanticEquals(prior.expiration_date, @)
                            THEN prior.expiration_date ELSE @]

(***************************************************************************)
(* Record builder.                                                         *)
(***************************************************************************)
\* a faulty builder that numbers the versions itself instead of taking the
\* version of the answer's ID
setSecretDataNumbering(s, id, attrs, contentType, tags) ==
    LET idName == IDName(id)
        idVersion == "1"
        resourceVersionlessID == ValueString(s.key_vault_id) \o "/secrets/" \o idName
    IN  [s EXCEPT
            !.id = StringValue(id),
            !.versionless_id = StringValue(TrimSuffix(id, "/" \o idVersion)),
            !.version = StringValue(idVersion),
            !.resource_versionless_id = StringValue(resourceVersionlessID),
            !.resource_id = StringValue(resourceVersionlessID \o "/versions/" \o idVersion),
            !.content_type = IF contentType.nil THEN @ ELSE StringValue(contentType.v),
            !.not_before_date = IF attrs.NotBefore.nil THEN @
                                ELSE StringValue(RFC3339UTC(attrs.NotBefore.v)),
            !.expiration_date = IF attrs.Expires.nil THEN @
                                ELSE StringValue(RFC3339UTC(attrs.Expires.v)),
            !.tags = IF tags.nil THEN @ ELSE MapValue(tags.v)]

\* a faulty builder that clears the content type of the model when the
\* answer carries none
setSecretDataClearing(s, id, attrs, contentType, tags) ==
    LET idName == IDName(id)
        idVersion == IDVersion(id)
        resourceVersionlessID == ValueString(s.key_vault_id) \o "/secrets/" \o idName
    IN  [s EXCEPT
            !.id = StringValue(id),
            !.versionless_id = StringValue(TrimSuffix(id, "/" \o idVersion)),
            !.version = StringValue(idVersion),
            !.resource_versionless_id = StringValue(resourceVersionlessID),
            !.resource_id = StringValue(resourceVersionlessID \o "/versions/" \o idVersion),
            !.content_type = IF contentType.nil THEN StringNull
                             ELSE StringValue(contentType.v),
            !.not_before_date = IF attrs.NotBefore.nil THEN @
                                ELSE StringValue(RFC3339UTC(attrs.NotBefore.v)),
            !.expiration_date = IF attrs.Expires.nil THEN @
                                ELSE StringValue(RFC3339UTC(attrs.Expires.v)),
            !.tags = IF tags.nil THEN @ ELSE MapValue(tags.v)]

\* setSecretData: s the model, id / attrs / contentType / tags the vault's
\* answer.  Fields the answer leaves nil keep what the model held.
setSecretData(s, id, attrs, contentType, tags) ==
    LET idName == IDName(id)
        idVersion == IDVersion(id)
        resourceVersionlessID == ValueString(s.key_vault_id) \o "/secrets/" \o idName
    IN  [s EXCEPT
            !.id = StringValue(id),
            !.versionless_id = StringValue(TrimSuffix(id, "/" \o idVersion)),
            !.version = StringValue(idVersion),
            !.resource_versionless_id = StringValue(resourceVersionlessID),
            !.resource_id = StringValue(resourceVersionlessID \o "/versions/" \o idVersion),
            !.content_type = IF contentType.nil THEN @ ELSE StringValue(contentType.v),
            !.not_before_date = IF attrs.NotBefore.nil THEN @
                                ELSE StringValue(RFC3339UTC(attrs.NotBefore.v)),
            !.expiration_date = IF attrs.Expires.nil THEN @
                                ELSE StringValue(RFC3339UTC(attrs.Expires.v)),
            !.tags = IF tags.nil THEN @ ELSE MapValue(tags.v)]

(***************************************************************************)
(* The world of the model: one key vault, the secrets the handlers name,   *)
(* the values the configuration can give.                                  *)
(***************************************************************************)
SecretValues == {"secret-value"}
Counters == {1, 2}

VARIABLES
    vault,      \* secret name -> the versions of that secret, in minting order
    minted,     \* how many versions the vault has minted
    now,        \* the vault's clock: the second of the last version minted
    state,      \* the persisted record of the resource (nil: absent)
    identity,   \* the persisted identity of the resource (nil: absent)
    plan,       \* the plan the orchestrator holds for the next apply (nil: none)
    last,       \* the last handler invocation: what it called and answered
    listing,    \* a version listing handed to the data source
    dsConfig,   \* the configuration of the data source
    dsState,    \* the state the data source answered (nil: none)
    createdRecord,  \* the record the Create of a scenario answered (nil: not followed)
    importedRecord, \* the identity of the record an import of a scenario answered,
                    \* until a Create or an Update answers another (nil: none, or
                    \* not followed)
    mutex,          \* client.mutex: the goroutine that holds it, 0 when free
    secretClients,  \* client.secretClients: vault name -> the client cached (0: none)
    goroutines,     \* the concurrent callers of the client: where each one stands
    constructed,    \* vault name -> how many clients NewClient has answered for it
    codec,          \* an identifier handed to the identity codec, and its answer
    instances,      \* caller -> the (key vault ID, secret name) its invocations are for
    secrets         \* (vault name, secret name) -> the versions stored, over the vaults
                    \* the instances of one client name

\* the variables of the instances that share one client, followed in their
\* specification and left alone by the others
sharedVars == <<instances, secrets>>

vars == <<vault, minted, now, state, identity, plan, last, listing, dsConfig, dsState,
          createdRecord, importedRecord, mutex, secretClients, goroutines, constructed,
          codec, instances, secrets>>

\* the variables of the client's cache, followed in the specification of the
\* concurrent callers and left alone by the others
clientVars == <<mutex, secretClients, goroutines, constructed>>

NilState == [nil |-> TRUE]
Some(x) == [nil |-> FALSE, v |-> x]

(***************************************************************************)
(* The client's cache of secret clients (client.secretClients under        *)
(* client.mutex) and the goroutines that call the client concurrently.     *)
(* A goroutine stands at: idle (no call), lock (the vault name extracted,  *)
(* about to Lock), check (holding the mutex, about to look the name up),   *)
(* construct (holding the mutex after a miss, about to call NewClient),    *)
(* call (getSecretClient has returned a client), inflight (the request of  *)
(* the vault's API is on its way), failed (getSecretClient returned an     *)
(* error).                                                                 *)
(***************************************************************************)
\* the goroutines and the calls each of them makes at most
MaxGoroutines == 2
MaxCalls == 1
Goroutines == 1 .. MaxGoroutines

\* the key vault IDs the callers pass: the model's vault, a vault of the same
\* name in another resource group, another vault, and malformed IDs (a
\* trailing segment, another provider namespace)
ClientKeyVaultIDs ==
    {KeyVaultID,
     "/subscriptions/sub/resourceGroups/rg2/providers/Microsoft.KeyVault/vaults/kv",
     "/subscriptions/sub/resourceGroups/rg/providers/Microsoft.KeyVault/vaults/kv2",
     "/subscriptions/sub/resourceGroups/rg/providers/Microsoft.KeyVault/vaults/kv/x",
     "/subscriptions/sub/resourceGroups/rg/providers/MicrosoftXKeyVault/vaults/kv"}
extractedVaultNames == [id \in ClientKeyVaultIDs |-> extractVaultName(id)]
ClientVaultNames ==
    {extractedVaultNames[id].name : id \in {i \in ClientKeyVaultIDs :
                                               extractedVaultNames[i].err = ""}}

\* the calls of the client that go through getSecretClient
ClientCalls == {"GetSecretProperties", "SetSecret", "UpdateSecretProperties",
                "DeleteSecret"}

Idle(calls) ==
    [pc |-> "idle", op |-> "", vaultName |-> "", secretClient |-> 0, err |-> "",
     calls |-> calls]

\* nothing was handed to the identity codec
NoCodec == [nil |-> TRUE]
\* no instances followed, and no vaults of theirs
NoInstances == <<>>
NoSecrets == <<>>

\* NewClient: an empty cache, the mutex free, no caller yet
InitClient ==
    /\ mutex = 0
    /\ secretClients = [n \in ClientVaultNames |-> 0]
    /\ goroutines = [g \in Goroutines |-> Idle(0)]
    /\ constructed = [n \in ClientVaultNames |-> 0]

\* goroutine g calls op of the client for keyVaultID: getSecretClient
\* extracts the vault name, and returns the error when there is none
CallClient(g, op, keyVaultID) ==
    /\ goroutines[g].pc = "idle"
    /\ goroutines[g].calls < MaxCalls
    /\ LET r == extractedVaultNames[keyVaultID]
       IN  goroutines' = [goroutines EXCEPT ![g] =
                [pc |-> IF r.err # "" THEN "failed" ELSE "lock",
                 op |-> op, vaultName |-> r.name, secretClient |-> 0,
                 err |-> r.err, calls |-> @.calls + 1]]
    /\ UNCHANGED <<mutex, secretClients, constructed>>

\* a faulty Lock that does not wait for the mutex
LockBarging(g) ==
    /\ goroutines[g].pc = "lock"
    /\ mutex' = g
    /\ goroutines' = [goroutines EXCEPT ![g].pc = "check"]
    /\ UNCHANGED <<secretClients, constructed>>

\* c.mutex.Lock()
Lock(g) ==
    /\ goroutines[g].pc = "lock"
    /\ mutex = 0
    /\ mutex' = g
    /\ goroutines' = [goroutines EXCEPT ![g].pc = "check"]
    /\ UNCHANGED <<secretClients, constructed>>

\* a faulty lookup that keeps the mutex when it returns the cached client
LookUpKeeping(g) ==
    /\ goroutines[g].pc = "check"
    /\ LET cached == secretClients[goroutines[g].vaultName]
       IN  IF cached # 0
           THEN /\ goroutines' = [goroutines EXCEPT ![g].pc = "call",
                                                    ![g].secretClient = cached]
                /\ UNCHANGED mutex
           ELSE /\ goroutines' = [goroutines EXCEPT ![g].pc = "construct"]
                /\ UNCHANGED mutex
    /\ UNCHANGED <<secretClients, constructed>>

\* a faulty lookup that ignores the key: it returns a client the cache
\* holds, of whichever vault
LookUpAnyVault(g) ==
    /\ goroutines[g].pc = "check"
    /\ LET cached == {n \in ClientVaultNames : secretClients[n] # 0}
       IN  IF cached # {}
           THEN /\ \E n \in cached :
                      goroutines' = [goroutines EXCEPT ![g].pc = "call",
                                                       ![g].vaultName = n,
                                                       ![g].secretClient = secretClients[n]]
                /\ mutex' = 0
           ELSE /\ goroutines' = [goroutines EXCEPT ![g].pc = "construct"]
                /\ UNCHANGED mutex
    /\ UNCHANGED <<secretClients, constructed>>

\* the lookup in the cache: a hit returns the cached client, the deferred
\* Unlock releasing the mutex; a miss goes on to construct one
LookUp(g) ==
    /\ goroutines[g].pc = "check"
    /\ LET cached == secretClients[goroutines[g].vaultName]
       IN  IF cached # 0
           THEN /\ goroutines' = [goroutines EXCEPT ![g].pc = "call",
                                                    ![g].secretClient = cached]
                /\ mutex' = 0
           ELSE /\ goroutines' = [goroutines EXCEPT ![g].pc = "construct"]
                /\ UNCHANGED mutex
    /\ UNCHANGED <<secretClients, constructed>>

\* azsecrets.NewClient and the insertion: on an error nothing is cached; the
\* deferred Unlock releases the mutex on either return
Construct(g, failed) ==
    /\ goroutines[g].pc = "construct"
    /\ LET vaultName == goroutines[g].vaultName
           secretClient == constructed[vaultName] + 1
       IN  IF failed
           THEN /\ goroutines' = [goroutines EXCEPT ![g].pc = "failed",
                                                    ![g].err = "new client"]
                /\ UNCHANGED <<secretClients, constructed>>
           ELSE /\ constructed' = [constructed EXCEPT ![vaultName] = secretClient]
                /\ secretClients' = [secretClients EXCEPT ![vaultName] = secretClient]
                /\ goroutines' = [goroutines EXCEPT ![g].pc = "call",
                                                    ![g].secretClient = secretClient]
    /\ mutex' = 0

\* the caller sends the request of the vault's API with the client it got
Send(g) ==
    /\ goroutines[g].pc = "call"
    /\ goroutines' = [goroutines EXCEPT ![g].pc = "inflight"]
    /\ UNCHANGED <<mutex, secretClients, constructed>>

\* the call of the client returns: the answer of the vault, or the error of
\* getSecretClient
Return(g) ==
    /\ goroutines[g].pc \in {"inflight", "failed"}
    /\ goroutines' = [goroutines EXCEPT ![g] = Idle(@.calls)]
    /\ UNCHANGED <<mutex, secretClients, constructed>>

(***************************************************************************)
(* The Key Vault service (azsecrets.Client), the collaborator.             *)
(***************************************************************************)
\* what a listing or an answer shows of a stored version: all but the value
Properties(e) ==
    [ID |-> e.ID, Created |-> e.Created, ContentType |-> e.ContentType,
     NotBefore |-> e.NotBefore, Expires |-> e.Expires, Tags |-> e.Tags]

\* the vault's current version of a secret: the one minted last
Current(versions) == versions[Len(versions)]

\* SetSecret: a new version, its identifier chosen by the vault
MintedVersion(name, parameters, n, t) ==
    [ID |-> SecretID(name, VersionIDs[n]),
     Created |-> t,
     Value |-> parameters.Value,
     ContentType |-> parameters.ContentType,
     NotBefore |-> parameters.SecretAttributes.NotBefore,
     Expires |-> parameters.SecretAttributes.Expires,
     Tags |-> parameters.Tags]

\* the index of the version UpdateSecretProperties addresses: the named one,
\* the current one for an empty version, 0 when there is none
TargetIndex(versions, version) ==
    IF version = "" THEN Len(versions)
    ELSE LET hits == {i \in 1 .. Len(versions) : IDVersion(versions[i].ID) = version}
         IN  IF hits = {} THEN 0 ELSE CHOOSE i \in hits : TRUE

\* UpdateSecretProperties: the attributes the request specifies replace the
\* stored ones, those it leaves out stay
UpdatedVersion(e, parameters) ==
    [e EXCEPT
        !.ContentType = IF parameters.ContentType.nil THEN @ ELSE parameters.ContentType,
        !.NotBefore = IF parameters.SecretAttributes.NotBefore.nil THEN @
                      ELSE parameters.SecretAttributes.NotBefore,
        !.Expires = IF parameters.SecretAttributes.Expires.nil THEN @
                    ELSE parameters.SecretAttributes.Expires,
        !.Tags = IF parameters.Tags.nil THEN @ ELSE parameters.Tags]

\* the listings the service answers for the stored versions in the life
\* cycle: oldest first or newest first, in one page, or a failed fetch (the
\* lookup over every order and paging is the data source's specification)
Reverse(q) == [i \in 1 .. Len(q) |-> q[Len(q) + 1 - i]]
PropertiesOf(versions) == [i \in 1 .. Len(versions) |-> Properties(versions[i])]
ListingsOf(versions) ==
    {<<[err |-> FALSE, Value |-> PropertiesOf(versions)]>>,
     <<[err |-> FALSE, Value |-> Reverse(PropertiesOf(versions))]>>,
     <<[err |-> TRUE, Value |-> <<>>]>>}

(***************************************************************************)
(* The resource: schema, models and requests.                              *)
(***************************************************************************)
\* SecretResourceModel with every attribute null
NullModel ==
    [name |-> StringNull, key_vault_id |-> StringNull, id |-> StringNull,
     versionless_id |-> StringNull, content_type |-> StringNull,
     not_before_date |-> StringNull, expiration_date |-> StringNull,
     version |-> StringNull, resource_id |-> StringNull,
     resource_versionless_id |-> StringNull, tags |-> MapNull,
     value_wo |-> StringNull, value_wo_version |-> Int32Null]

\* the schema's defaults of content_type and tags, applied to a null configuration
ContentTypeDefault(a) == IF IsNull(a) THEN StringValue("") ELSE a
TagsDefault(a) == IF IsNull(a) THEN MapValue({}) ELSE a

\* a schema that does not declare value_wo WriteOnly: the property of the
\* persisted record must tell it apart
ValueWOPersisted == FALSE

\* value_wo is declared WriteOnly: the framework never lets it into a plan or a state
ValueWOWriteOnly == TRUE
NullifyWriteOnly(model) ==
    IF ValueWOWriteOnly THEN [model EXCEPT !.value_wo = StringNull] ELSE model

\* the optional attributes of the configurations of the acceptance tests:
\* none set (the basic configuration), or the validity window and the tags
\* set (the complete configuration)
TestMetadata ==
    {[content_type |-> StringNull, not_before_date |-> StringNull,
      expiration_date |-> StringNull, tags |-> MapNull],
     [content_type |-> StringNull,
      not_before_date |-> StringValue("2025-01-23T01:23:45Z"),
      expiration_date |-> StringValue("2026-01-23T01:23:45Z"),
      tags |-> MapValue({<<"environment", "test">>})]}

\* the optional attributes of a configuration: those of the acceptance
\* tests, or all of them set, the validity start in a time zone other than
\* UTC
Metadata ==
    TestMetadata \cup
    {[content_type |-> StringValue("text/plain"),
      not_before_date |-> StringValue("2025-01-23T10:23:45+09:00"),
      expiration_date |-> StringValue("2026-01-23T01:23:45Z"),
      tags |-> MapValue({<<"environment", "test">>})]}

\* a configuration: the required attributes and the optional ones
Config(name, valueWO, valueWOVersion, m) ==
    [name |-> name, key_vault_id |-> StringValue(KeyVaultID),
     value_wo |-> valueWO, value_wo_version |-> valueWOVersion,
     content_type |-> m.content_type, not_before_date |-> m.not_before_date,
     expiration_date |-> m.expiration_date, tags |-> m.tags]

\* the configurations a first apply carries: the required attributes are
\* set, with either value_wo_version
ConfigsOver(metadata) ==
    {Config(StringValue(n), StringValue(x), Int32Value(c), m) :
        n \in Names, x \in SecretValues, c \in Counters, m \in metadata}
\* those of the acceptance tests
ApplyConfigs == ConfigsOver(TestMetadata)
\* those with any of the optional attributes
UserConfigs == ConfigsOver(Metadata)

\* the plan of a resource that does not exist yet: the configuration, the
\* defaults, every computed attribute unknown
CreatePlan(config) ==
    [name |-> config.name, key_vault_id |-> config.key_vault_id,
     id |-> StringUnknown, versionless_id |-> StringUnknown,
     content_type |-> ContentTypeDefault(config.content_type),
     not_before_date |-> config.not_before_date,
     expiration_date |-> config.expiration_date,
     version |-> StringUnknown, resource_id |-> StringUnknown,
     resource_versionless_id |-> StringUnknown,
     tags |-> TagsDefault(config.tags),
     value_wo |-> config.value_wo,
     value_wo_version |-> config.value_wo_version]

\* toMap: the tags of the model as a Go map; ElementsAs leaves a nil map
\* for a null value
toMap(m) == IF IsNull(m) THEN NilMap ELSE Ptr(m.v)

\* buildSecretAttributes: the validity window of the model as instants
buildSecretAttributes(model) ==
    [Expires |-> IF ~IsNull(model.expiration_date)
                 THEN Ptr(ValueRFC3339Time(model.expiration_date.v)) ELSE NilTime,
     NotBefore |-> IF ~IsNull(model.not_before_date)
                   THEN Ptr(ValueRFC3339Time(model.not_before_date.v)) ELSE NilTime]

\* the parameters Create and Update hand to SetSecret
SetSecretParameters(model, secretValue) ==
    [Value |-> secretValue,
     ContentType |-> ValueStringPointer(model.content_type),
     SecretAttributes |-> buildSecretAttributes(model),
     Tags |-> toMap(model.tags)]

\* a faulty request of Update that leaves the content type out
UpdateSecretPropertiesParametersBare(model) ==
    [ContentType |-> Nil,
     SecretAttributes |-> buildSecretAttributes(model),
     Tags |-> toMap(model.tags)]

\* the parameters Update hands to UpdateSecretProperties
UpdateSecretPropertiesParameters(model) ==
    [ContentType |-> ValueStringPointer(model.content_type),
     SecretAttributes |-> buildSecretAttributes(model),
     Tags |-> toMap(model.tags)]

\* the configurations a plan can be asked for, for the record prior: name and
\* vault as recorded (a change of either replaces the resource), value_wo
\* null when the lifecycle ignores it or not yet known, value_wo_version
\* possibly null or not yet known
PlanConfigsOver(prior, metadata) ==
    {[Config(prior.name, valueWO, valueWOVersion, m) EXCEPT !.key_vault_id = prior.key_vault_id] :
        valueWO \in {StringNull, StringUnknown} \cup {StringValue(x) : x \in SecretValues},
        valueWOVersion \in {Int32Null, Int32Unknown} \cup {Int32Value(c) : c \in Counters},
        m \in metadata}
\* with the optional attributes of the acceptance tests
PlanConfigs(prior) == PlanConfigsOver(prior, TestMetadata)
\* with any of the optional attributes
UserPlanConfigs(prior) == PlanConfigsOver(prior, Metadata)

\* the plan the framework proposes for an update before ModifyPlan runs: the
\* configuration over the prior record, the defaults, the write-only value
\* taken out, and, once anything differs from the prior record, the computed
\* attributes without UseStateForUnknown (id, version, resource_id) unknown
ProposedPlan(config, prior) ==
    LET proposed == NullifyWriteOnly(
                        [prior EXCEPT
                            !.value_wo = config.value_wo,
                            !.value_wo_version = config.value_wo_version,
                            !.content_type = ContentTypeDefault(config.content_type),
                            !.not_before_date = config.not_before_date,
                            !.expiration_date = config.expiration_date,
                            !.tags = TagsDefault(config.tags)])
    IN  IF proposed # prior
        THEN [proposed EXCEPT !.id = StringUnknown, !.version = StringUnknown,
                              !.resource_id = StringUnknown]
        ELSE proposed

\* markValueWillChange
markValueWillChange(p) ==
    [p EXCEPT !.id = StringUnknown, !.resource_id = StringUnknown,
              !.version = StringUnknown]

\* a faulty variant of ModifyPlan that leaves the plan as it stands when the
\* value_wo_version is unchanged, where ModifyPlan pins the three attributes
ModifyPlanMarking(config, prior, p) ==
    IF config.nil \/ prior.nil THEN p
    ELSE IF IsNull(config.v.value_wo) \/ IsNull(config.v.value_wo_version) THEN p
    ELSE IF IsUnknown(config.v.value_wo) THEN markValueWillChange(p)
    ELSE IF config.v.value_wo_version # prior.v.value_wo_version THEN markValueWillChange(p)
    ELSE p

\* a faulty variant of ModifyPlan that announces a new version only when
\* the value_wo_version rises, where Update mints on any difference
ModifyPlanRising(config, prior, p) ==
    IF config.nil \/ prior.nil THEN p
    ELSE IF IsNull(config.v.value_wo) \/ IsNull(config.v.value_wo_version) THEN p
    ELSE IF IsUnknown(config.v.value_wo) THEN markValueWillChange(p)
    ELSE IF ValueInt32(config.v.value_wo_version) > ValueInt32(prior.v.value_wo_version)
    THEN markValueWillChange(p)
    ELSE [p EXCEPT !.id = StringValue(ValueString(prior.v.id)),
                   !.resource_id = StringValue(ValueString(prior.v.resource_id)),
                   !.version = StringValue(ValueString(prior.v.version))]

\* SecretResource.ModifyPlan: config and prior are nil when the resource is
\* destroyed or created; p is the plan so far, the result the plan answered
ModifyPlan(config, prior, p) ==
    IF config.nil \/ prior.nil THEN p
    ELSE IF IsNull(config.v.value_wo) \/ IsNull(config.v.value_wo_version) THEN p
    ELSE IF IsUnknown(config.v.value_wo) THEN markValueWillChange(p)
    ELSE IF config.v.value_wo_version # prior.v.value_wo_version THEN markValueWillChange(p)
    ELSE [p EXCEPT !.id = StringValue(ValueString(prior.v.id)),
                   !.resource_id = StringValue(ValueString(prior.v.resource_id)),
                   !.version = StringValue(ValueString(prior.v.version))]

\* a faulty identity, its two attributes exchanged
IdentityExchanged(model) == [name |-> model.key_vault_id, key_vault_id |-> model.name]

\* SecretResourceIdentityModel of a model
IdentityOf(model) == [name |-> model.name, key_vault_id |-> model.key_vault_id]

\* what a handler leaves in last: the operation, its diagnostics and the
\* collaborator calls it made
Invocation(op, err, calls) == [op |-> op, err |-> err, calls |-> calls]

NoPlan == [nil |-> TRUE]

\* the record is whole: a Read has filled it since it was imported
Whole(st) == ~st.nil /\ ~IsNull(st.v.version)

(***************************************************************************)
(* The handlers of the resource.                                           *)
(***************************************************************************)
\* a faulty Create that commits the planned model when SetSecret fails
CreateCommitting(config, upstream, elapsed) ==
    /\ state.nil
    /\ minted < MaxMint
    /\ LET model == NullifyWriteOnly(ModifyPlan(Some(config), NilState, CreatePlan(config)))
           secretValue == ValueString(config.value_wo)
           keyVaultID == ValueString(model.key_vault_id)
           name == ValueString(model.name)
           parameters == SetSecretParameters(model, secretValue)
           clientErr == getSecretClient(keyVaultID)
           e == MintedVersion(name, parameters, minted + 1, now + elapsed)
           setResp == Properties(e)
           built == SchemaSemanticEquality(model,
                        setSecretData(model, setResp.ID, setResp, setResp.ContentType,
                                      setResp.Tags))
       IN  IF clientErr # "" \/ upstream
           THEN /\ elapsed = 0
                /\ last' = Invocation("Create", "Failed to Set Secret",
                                      IF clientErr # "" THEN <<>> ELSE <<"SetSecret">>)
                /\ state' = Some(model)
                /\ identity' = Some(IdentityOf(model))
                /\ UNCHANGED <<vault, minted, now>>
           ELSE /\ vault' = [vault EXCEPT ![name] = Append(@, e)]
                /\ minted' = minted + 1
                /\ now' = now + elapsed
                /\ state' = Some(NullifyWriteOnly(built))
                /\ identity' = Some(IdentityOf(built))
                /\ last' = Invocation("Create", "", <<"SetSecret">>)
    /\ plan' = NoPlan
    /\ UNCHANGED <<listing, dsConfig, dsState>>

\* SecretResource.Create, for a plan made from config; upstream: whether the
\* vault refuses the call; elapsed: the seconds (0 or 1, Created has a
\* resolution of one second) since the vault minted its last version
Create(config, upstream, elapsed) ==
    /\ state.nil
    /\ minted < MaxMint
    /\ LET model == NullifyWriteOnly(ModifyPlan(Some(config), NilState, CreatePlan(config)))
           secretValue == ValueString(config.value_wo)
           keyVaultID == ValueString(model.key_vault_id)
           name == ValueString(model.name)
           parameters == SetSecretParameters(model, secretValue)
           clientErr == getSecretClient(keyVaultID)
           e == MintedVersion(name, parameters, minted + 1, now + elapsed)
           setResp == Properties(e)
           built == SchemaSemanticEquality(model,
                        setSecretData(model, setResp.ID, setResp, setResp.ContentType,
                                      setResp.Tags))
       IN  IF clientErr # "" \/ upstream
           THEN /\ elapsed = 0
                /\ last' = Invocation("Create", "Failed to Set Secret",
                                      IF clientErr # "" THEN <<>> ELSE <<"SetSecret">>)
                /\ UNCHANGED <<vault, minted, now, state, identity>>
           ELSE /\ vault' = [vault EXCEPT ![name] = Append(@, e)]
                /\ minted' = minted + 1
                /\ now' = now + elapsed
                /\ state' = Some(NullifyWriteOnly(built))
                /\ identity' = Some(IdentityOf(built))
                /\ last' = Invocation("Create", "", <<"SetSecret">>)
    /\ plan' = NoPlan
    /\ UNCHANGED <<listing, dsConfig, dsState>>

\* a faulty Read that deletes the secret when the lookup fails
ReadPurging(pages) ==
    /\ ~state.nil
    /\ LET model == state.v
           r == GetSecretProperties(ValueString(model.key_vault_id), pages, "")
           secretProperties == r.secret.v
           built == SchemaSemanticEquality(model,
                        setSecretData(model, secretProperties.ID, secretProperties,
                                      secretProperties.ContentType, secretProperties.Tags))
       IN  IF r.err # ""
           THEN /\ last' = Invocation("Read", "Failed to Get Secret Properties",
                                      <<"ListSecretPropertiesVersions", "DeleteSecret">>)
                /\ vault' = [vault EXCEPT ![ValueString(model.name)] = <<>>]
                /\ state' = NilState /\ identity' = NilState
           ELSE /\ state' = Some(NullifyWriteOnly(built))
                /\ identity' = Some(IdentityOf(built))
                /\ last' = Invocation("Read", "", <<"ListSecretPropertiesVersions">>)
                /\ UNCHANGED vault
    /\ plan' = NoPlan
    /\ UNCHANGED <<minted, now, listing, dsConfig, dsState>>

\* SecretResource.Read, the service answering the listing pages.  The read
\* that follows an import is part of the import: when it fails the
\* orchestrator keeps nothing of the imported record.
Read(pages) ==
    /\ ~state.nil
    /\ LET model == state.v
           r == GetSecretProperties(ValueString(model.key_vault_id), pages, "")
           secretProperties == r.secret.v
           built == SchemaSemanticEquality(model,
                        setSecretData(model, secretProperties.ID, secretProperties,
                                      secretProperties.ContentType, secretProperties.Tags))
       IN  IF r.err # ""
           THEN /\ last' = Invocation("Read", "Failed to Get Secret Properties",
                                      IF getSecretClient(ValueString(model.key_vault_id)) # ""
                                      THEN <<>>
                                      ELSE <<"ListSecretPropertiesVersions">>)
                /\ IF Whole(state)
                   THEN UNCHANGED <<state, identity>>
                   ELSE state' = NilState /\ identity' = NilState
           ELSE /\ state' = Some(NullifyWriteOnly(built))
                /\ identity' = Some(IdentityOf(built))
                /\ last' = Invocation("Read", "", <<"ListSecretPropertiesVersions">>)
    /\ plan' = NoPlan
    /\ UNCHANGED <<vault, minted, now, listing, dsConfig, dsState>>

\* a faulty Delete that calls DeleteSecret a second time when the first call
\* is refused
DeleteRetrying(upstream) ==
    /\ Whole(state)
    /\ LET keyVaultID == ValueString(state.v.key_vault_id)
           name == ValueString(state.v.name)
           failed == getSecretClient(keyVaultID) # "" \/ upstream \/ vault[name] = <<>>
       IN  IF failed
           THEN /\ last' = Invocation("Delete", "Failed to Delete Secret",
                                      IF getSecretClient(keyVaultID) # "" THEN <<>>
                                      ELSE <<"DeleteSecret", "DeleteSecret">>)
                /\ UNCHANGED <<vault, state, identity>>
           ELSE /\ vault' = [vault EXCEPT ![name] = <<>>]
                /\ state' = NilState
                /\ identity' = NilState
                /\ last' = Invocation("Delete", "", <<"DeleteSecret">>)
    /\ plan' = NoPlan
    /\ UNCHANGED <<minted, now, listing, dsConfig, dsState>>

\* a faulty Delete that removes the current version only
DeleteCurrentVersion(upstream) ==
    /\ Whole(state)
    /\ LET keyVaultID == ValueString(state.v.key_vault_id)
           name == ValueString(state.v.name)
           failed == getSecretClient(keyVaultID) # "" \/ upstream \/ vault[name] = <<>>
       IN  IF failed
           THEN /\ last' = Invocation("Delete", "Failed to Delete Secret",
                                      IF getSecretClient(keyVaultID) # "" THEN <<>>
                                      ELSE <<"DeleteSecret">>)
                /\ UNCHANGED <<vault, state, identity>>
           ELSE /\ vault' = [vault EXCEPT ![name] = SubSeq(@, 1, Len(@) - 1)]
                /\ state' = NilState
                /\ identity' = NilState
                /\ last' = Invocation("Delete", "", <<"DeleteSecret">>)
    /\ plan' = NoPlan
    /\ UNCHANGED <<minted, now, listing, dsConfig, dsState>>

\* SecretResource.Delete; the framework drops the record when no error is reported
Delete(upstream) ==
    /\ Whole(state)
    /\ LET keyVaultID == ValueString(state.v.key_vault_id)
           name == ValueString(state.v.name)
           failed == getSecretClient(keyVaultID) # "" \/ upstream \/ vault[name] = <<>>
       IN  IF failed
           THEN /\ last' = Invocation("Delete", "Failed to Delete Secret",
                                      IF getSecretClient(keyVaultID) # "" THEN <<>>
                                      ELSE <<"DeleteSecret">>)
                /\ UNCHANGED <<vault, state, identity>>
           ELSE /\ vault' = [vault EXCEPT ![name] = <<>>]
                /\ state' = NilState
                /\ identity' = NilState
                /\ last' = Invocation("Delete", "", <<"DeleteSecret">>)
    /\ plan' = NoPlan
    /\ UNCHANGED <<minted, now, listing, dsConfig, dsState>>

\* the planned state of a configuration over the record held: the
\* framework's proposal, ModifyPlan, and the write-only value taken out
PlannedState(config) ==
    NullifyWriteOnly(ModifyPlan(Some(config), state, ProposedPlan(config, state.v)))

\* the orchestrator, holding no plan, plans an update for config; first
\* keeps the configuration as it was when the plan was first made
Plan(config) ==
    /\ Whole(state)
    /\ plan.nil
    /\ plan' = Some([config |-> config, planned |-> PlannedState(config),
                     first |-> config])
    /\ last' = Invocation("ModifyPlan", "", <<>>)
    /\ UNCHANGED <<vault, minted, now, state, identity, listing, dsConfig, dsState>>

\* a configuration with nothing left unknown
Known(config) ==
    ~IsUnknown(config.value_wo) /\ ~IsUnknown(config.value_wo_version)

\* the orchestrator, about to apply a plan made of a configuration with
\* unknown values, plans again with the final configuration: secretValue the
\* value_wo and valueWOVersionKnown the value_wo_version now that they are
\* known; ModifyPlan runs on the final configuration
PlanFinal(secretValue, valueWOVersionKnown) ==
    /\ Whole(state)
    /\ ~plan.nil
    /\ ~Known(plan.v.config)
    /\ LET config == [plan.v.config EXCEPT
                         !.value_wo = IF IsUnknown(@) THEN StringValue(secretValue) ELSE @,
                         !.value_wo_version = IF IsUnknown(@) THEN valueWOVersionKnown
                                              ELSE @]
       IN  plan' = Some([config |-> config, planned |-> PlannedState(config),
                         first |-> plan.v.first])
    /\ last' = Invocation("ModifyPlan", "", <<>>)
    /\ UNCHANGED <<vault, minted, now, state, identity, listing, dsConfig, dsState>>

\* the plans an apply carries to Update: final ones, of a configuration
\* whose required attributes are set (Terraform rejects the others before it
\* plans), and that change the record (Terraform applies nothing for the
\* others)
Appliable(p) ==
    /\ ~p.nil
    /\ Known(p.v.config)
    /\ ~IsNull(p.v.config.value_wo_version)
    /\ p.v.planned # state.v

\* the branch of Update inverted
valueWOVersionUnchanged(valueWOVersion, model) ==
    valueWOVersion = ValueInt32(model.value_wo_version)

\* the branch of Update: the value_wo_version of the prior state against that
\* of the plan
valueWOVersionChanged(valueWOVersion, model) ==
    valueWOVersion # ValueInt32(model.value_wo_version)

\* a faulty Update that answers the record with the value_wo_version of the
\* prior state instead of the planned one
UpdateKeepingCounter(secretValue, valueWOVersionKnown, upstream, elapsed) ==
    /\ Whole(state)
    /\ Appliable(plan)
    /\ IsNull(plan.v.config.value_wo) \/ secretValue = ValueString(plan.v.config.value_wo)
    /\ valueWOVersionKnown = plan.v.planned.value_wo_version
    /\ LET model == plan.v.planned
           valueWOVersion == ValueInt32(state.v.value_wo_version)
           stale == [model EXCEPT !.value_wo_version = state.v.value_wo_version]
           keyVaultID == ValueString(model.key_vault_id)
           name == ValueString(model.name)
           clientErr == getSecretClient(keyVaultID)
           rotate == valueWOVersionChanged(valueWOVersion, model)
           \* the SetSecret branch
           e == MintedVersion(name, SetSecretParameters(model, secretValue), minted + 1,
                              now + elapsed)
           setResp == Properties(e)
           \* the UpdateSecretProperties branch
           k == TargetIndex(vault[name], ValueString(model.version))
           u == UpdatedVersion(vault[name][k], UpdateSecretPropertiesParameters(model))
           updateResp == Properties(u)
       IN  IF rotate
           THEN /\ minted < MaxMint
                /\ IF clientErr # "" \/ upstream
                   THEN /\ elapsed = 0
                        /\ last' = Invocation("Update", "Failed to Set Secret",
                                              IF clientErr # "" THEN <<>>
                                              ELSE <<"SetSecret">>)
                        /\ UNCHANGED <<vault, minted, now, state>>
                   ELSE /\ vault' = [vault EXCEPT ![name] = Append(@, e)]
                        /\ minted' = minted + 1
                        /\ now' = now + elapsed
                        /\ state' = Some(NullifyWriteOnly(SchemaSemanticEquality(stale,
                               setSecretData(stale, setResp.ID, setResp,
                                             setResp.ContentType, setResp.Tags))))
                        /\ last' = Invocation("Update", "", <<"SetSecret">>)
           ELSE IF clientErr # "" \/ upstream \/ k = 0
                THEN /\ elapsed = 0
                     /\ last' = Invocation("Update", "Failed to Update Secret Properties",
                                           IF clientErr # "" THEN <<>>
                                           ELSE <<"UpdateSecretProperties">>)
                     /\ UNCHANGED <<vault, minted, now, state>>
                ELSE /\ vault' = [vault EXCEPT ![name][k] = u]
                     /\ state' = Some(NullifyWriteOnly(SchemaSemanticEquality(stale,
                            setSecretData(stale, updateResp.ID, updateResp,
                                          updateResp.ContentType, updateResp.Tags))))
                     /\ elapsed = 0
                     /\ last' = Invocation("Update", "", <<"UpdateSecretProperties">>)
                     /\ UNCHANGED <<minted, now>>
    /\ plan' = NoPlan
    /\ UNCHANGED <<identity, listing, dsConfig, dsState>>

\* SecretResource.Update applying the final plan held: secretValue the
\* value_wo of the configuration, valueWOVersionKnown the value_wo_version of
\* the plan, upstream whether the vault refuses the call, elapsed the seconds
\* since the vault minted its last version
Update(secretValue, valueWOVersionKnown, upstream, elapsed) ==
    /\ Whole(state)
    /\ Appliable(plan)
    /\ IsNull(plan.v.config.value_wo) \/ secretValue = ValueString(plan.v.config.value_wo)
    /\ valueWOVersionKnown = plan.v.planned.value_wo_version
    /\ LET model == plan.v.planned
           valueWOVersion == ValueInt32(state.v.value_wo_version)
           keyVaultID == ValueString(model.key_vault_id)
           name == ValueString(model.name)
           clientErr == getSecretClient(keyVaultID)
           rotate == valueWOVersionChanged(valueWOVersion, model)
           \* the SetSecret branch
           e == MintedVersion(name, SetSecretParameters(model, secretValue), minted + 1,
                              now + elapsed)
           setResp == Properties(e)
           \* the UpdateSecretProperties branch
           k == TargetIndex(vault[name], ValueString(model.version))
           u == UpdatedVersion(vault[name][k], UpdateSecretPropertiesParameters(model))
           updateResp == Properties(u)
       IN  IF rotate
           THEN /\ minted < MaxMint
                /\ IF clientErr # "" \/ upstream
                   THEN /\ elapsed = 0
                        /\ last' = Invocation("Update", "Failed to Set Secret",
                                              IF clientErr # "" THEN <<>>
                                              ELSE <<"SetSecret">>)
                        /\ UNCHANGED <<vault, minted, now, state>>
                   ELSE /\ vault' = [vault EXCEPT ![name] = Append(@, e)]
                        /\ minted' = minted + 1
                        /\ now' = now + elapsed
                        /\ state' = Some(NullifyWriteOnly(SchemaSemanticEquality(model,
                               setSecretData(model, setResp.ID, setResp,
                                             setResp.ContentType, setResp.Tags))))
                        /\ last' = Invocation("Update", "", <<"SetSecret">>)
           ELSE IF clientErr # "" \/ upstream \/ k = 0
                THEN /\ elapsed = 0
                     /\ last' = Invocation("Update", "Failed to Update Secret Properties",
                                           IF clientErr # "" THEN <<>>
                                           ELSE <<"UpdateSecretProperties">>)
                     /\ UNCHANGED <<vault, minted, now, state>>
                ELSE /\ vault' = [vault EXCEPT ![name][k] = u]
                     /\ state' = Some(NullifyWriteOnly(SchemaSemanticEquality(model,
                            setSecretData(model, updateResp.ID, updateResp,
                                          updateResp.ContentType, updateResp.Tags))))
                     /\ elapsed = 0
                     /\ last' = Invocation("Update", "", <<"UpdateSecretProperties">>)
                     /\ UNCHANGED <<minted, now>>
    /\ plan' = NoPlan
    /\ UNCHANGED <<identity, listing, dsConfig, dsState>>

\* a page of the Resource Directory's listing: a failed fetch or the
\* identifiers of the resources it carries
DirectoryPage(ids) == [err |-> FALSE, Value |-> ids]
DirectoryFailure == [err |-> TRUE, Value |-> <<>>]

\* the listings the Resource Directory answers under the filter on the name
\* vaultName: the model's vault when it is the one named, on the first page
\* or after an empty one, or no resource at all (the vault is not there, or
\* the caller may not read it), or a failed fetch; the pager always answers
\* a first page
DirectoryListings(vaultName) ==
    LET hits == IF vaultName = parsedKeyVaultID.name THEN <<KeyVaultID>> ELSE <<>>
    IN  {<<DirectoryPage(hits)>>,
         <<DirectoryPage(<<>>), DirectoryPage(hits)>>,
         <<DirectoryPage(<<>>)>>,
         <<DirectoryPage(<<>>), DirectoryPage(<<>>)>>,
         <<DirectoryFailure>>,
         <<DirectoryPage(<<>>), DirectoryFailure>>}

\* an error of GetKeyVaultID that tells nothing of the permission
KeyVaultNotFoundBare(vaultName) ==
    "the key vault \"" \o vaultName \o "\" not found"

\* the error GetKeyVaultID answers when no page carries a resource
KeyVaultNotFound(vaultName) ==
    "the key vault \"" \o vaultName \o "\" not found; make sure that the key vault name"
    \o " is correct and that you have the \"Microsoft.KeyVault/vaults/read\" permission"

\* client.GetKeyVaultID over the pages the directory answers, from page p on:
\* the first resource of the first page that carries one
RECURSIVE GetKeyVaultID(_, _, _)
GetKeyVaultID(vaultName, pages, p) ==
    IF p > Len(pages) THEN [err |-> KeyVaultNotFound(vaultName), id |-> ""]
    ELSE IF pages[p].err THEN [err |-> "upstream", id |-> ""]
    ELSE IF Len(pages[p].Value) > 0 THEN [err |-> "", id |-> pages[p].Value[1]]
    ELSE GetKeyVaultID(vaultName, pages, p + 1)

\* what a call of ImportState was given: the string ID or the identity, the
\* subscription the provider is configured with, and what the directory
\* would list
ImportRequest(reqID, id, subscriptionID, directory) ==
    [ID |-> reqID, Identity |-> id, subscriptionID |-> subscriptionID,
     directory |-> directory]

\* a faulty import with an identity that leaves value_wo_version unset
importByIdentityUncounted(id, pages) ==
    LET name == ValueString(id.name)
        keyVaultID == ValueString(id.key_vault_id)
        r == GetSecretProperties(keyVaultID, pages, "")
    IN  IF r.err # ""
        THEN [err |-> "Failed to Get Secret Properties", detail |-> r.err,
              calls |-> IF getSecretClient(keyVaultID) # "" THEN <<>>
                        ELSE <<"ListSecretPropertiesVersions">>,
              state |-> NullModel]
        ELSE [err |-> "", detail |-> "",
              calls |-> <<"ListSecretPropertiesVersions">>,
              state |-> [NullModel EXCEPT !.id = StringValue(r.secret.v.ID),
                                          !.name = StringValue(name),
                                          !.key_vault_id = StringValue(keyVaultID)]]

\* SecretResource.ImportState with a structured identity: the diagnostics,
\* the collaborator calls and the state answered
importByIdentity(id, pages) ==
    LET name == ValueString(id.name)
        keyVaultID == ValueString(id.key_vault_id)
        r == GetSecretProperties(keyVaultID, pages, "")
    IN  IF r.err # ""
        THEN [err |-> "Failed to Get Secret Properties", detail |-> r.err,
              calls |-> IF getSecretClient(keyVaultID) # "" THEN <<>>
                        ELSE <<"ListSecretPropertiesVersions">>,
              state |-> NullModel]
        ELSE [err |-> "", detail |-> "",
              calls |-> <<"ListSecretPropertiesVersions">>,
              state |-> [NullModel EXCEPT !.id = StringValue(r.secret.v.ID),
                                          !.name = StringValue(name),
                                          !.key_vault_id = StringValue(keyVaultID),
                                          !.value_wo_version = Int32Value(1)]]

\* a faulty import with a string ID that asks the directory before it looks
\* at the subscription
importByIDAskingFirst(reqID, subscriptionID, directory) ==
    LET passed == [NullModel EXCEPT !.id = StringValue(reqID)]
        parsed == extractVaultNameAndName(reqID)
        named == [passed EXCEPT !.name = StringValue(parsed.name)]
        kv == GetKeyVaultID(parsed.vaultName, directory, 1)
    IN  IF parsed.err # ""
        THEN [err |-> "Invalid ID", detail |-> parsed.err,
              calls |-> <<>>, state |-> passed]
        ELSE IF kv.err # ""
        THEN [err |-> "Failed to Get KeyVaults", detail |-> kv.err,
              calls |-> <<"ResourcesList">>, state |-> named]
        ELSE IF subscriptionID = ""
        THEN [err |-> "Missing Configuration",
              detail |-> "Subscription ID is required to import a secret",
              calls |-> <<"ResourcesList">>, state |-> named]
        ELSE [err |-> "", detail |-> "", calls |-> <<"ResourcesList">>,
              state |-> [named EXCEPT !.key_vault_id = StringValue(kv.id),
                                      !.value_wo_version = Int32Value(1)]]

\* a faulty import with a string ID that starts the record's counter at 0
importByIDFromZero(reqID, subscriptionID, directory) ==
    LET passed == [NullModel EXCEPT !.id = StringValue(reqID)]
        parsed == extractVaultNameAndName(reqID)
        named == [passed EXCEPT !.name = StringValue(parsed.name)]
        kv == GetKeyVaultID(parsed.vaultName, directory, 1)
    IN  IF subscriptionID = ""
        THEN [err |-> "Missing Configuration",
              detail |-> "Subscription ID is required to import a secret",
              calls |-> <<>>, state |-> passed]
        ELSE IF parsed.err # ""
        THEN [err |-> "Invalid ID", detail |-> parsed.err,
              calls |-> <<>>, state |-> passed]
        ELSE [err |-> IF kv.err # "" THEN "Failed to Get KeyVaults" ELSE "",
              detail |-> kv.err,
              calls |-> <<"ResourcesList">>,
              state |-> [named EXCEPT !.key_vault_id = StringValue(kv.id),
                                      !.value_wo_version = Int32Value(0)]]

\* SecretResource.ImportState with a string ID; directory: the pages the
\* Resource Directory answers
importByID(reqID, subscriptionID, directory) ==
    LET passed == [NullModel EXCEPT !.id = StringValue(reqID)]
        parsed == extractVaultNameAndName(reqID)
        named == [passed EXCEPT !.name = StringValue(parsed.name)]
        kv == GetKeyVaultID(parsed.vaultName, directory, 1)
    IN  IF subscriptionID = ""
        THEN [err |-> "Missing Configuration",
              detail |-> "Subscription ID is required to import a secret",
              calls |-> <<>>, state |-> passed]
        ELSE IF parsed.err # ""
        THEN [err |-> "Invalid ID", detail |-> parsed.err,
              calls |-> <<>>, state |-> passed]
        ELSE [err |-> IF kv.err # "" THEN "Failed to Get KeyVaults" ELSE "",
              detail |-> kv.err,
              calls |-> <<"ResourcesList">>,
              state |-> [named EXCEPT !.key_vault_id = StringValue(kv.id),
                                      !.value_wo_version = Int32Value(1)]]

\* what an import leaves in last: the request, the diagnostics (summary and
\* detail), the collaborator calls and the state of the handler's response
ImportInvocation(req, r) ==
    [op |-> "ImportState", err |-> r.err, detail |-> r.detail, calls |-> r.calls,
     req |-> req, resp |-> r.state]

\* a faulty import with an identity that refuses to work without a
\* subscription and asks the Resource Directory for the vault
ImportByIdentityThroughDirectory(id, subscriptionID, pages) ==
    /\ state.nil
    /\ LET r == importByIdentity(id, pages)
           req == ImportRequest("", Some(id), subscriptionID, <<>>)
       IN  IF subscriptionID = ""
           THEN /\ last' = ImportInvocation(req,
                               [err |-> "Missing Configuration",
                                detail |-> "Subscription ID is required to import a secret",
                                calls |-> <<>>, state |-> NullModel])
                /\ UNCHANGED <<state, identity>>
           ELSE /\ last' = ImportInvocation(req,
                               [r EXCEPT !.calls = <<"ResourcesList">> \o @])
                /\ IF r.err # ""
                   THEN UNCHANGED <<state, identity>>
                   ELSE state' = Some(r.state) /\ identity' = Some(id)
    /\ plan' = NoPlan
    /\ UNCHANGED <<vault, minted, now, listing, dsConfig, dsState>>

\* a faulty orchestrator that keeps the state answered whatever the diagnostics
ImportCommitting(req, r, id) ==
    /\ state.nil
    /\ last' = ImportInvocation(req, r)
    /\ state' = Some(r.state)
    /\ identity' = id
    /\ plan' = NoPlan
    /\ UNCHANGED <<vault, minted, now, listing, dsConfig, dsState>>

\* the orchestrator imports the resource: it keeps the state answered unless
\* the handler reported an error
Import(req, r, id) ==
    /\ state.nil
    /\ last' = ImportInvocation(req, r)
    /\ IF r.err # ""
       THEN UNCHANGED <<state, identity>>
       ELSE /\ state' = Some(r.state)
            /\ identity' = id
    /\ plan' = NoPlan
    /\ UNCHANGED <<vault, minted, now, listing, dsConfig, dsState>>

\* an import with the identity id, the provider configured with
\* subscriptionID, the vault answering the listing pages
ImportByIdentity(id, subscriptionID, pages) ==
    Import(ImportRequest("", Some(id), subscriptionID, <<>>),
           importByIdentity(id, pages), Some(id))

\* an import with the string ID reqID
ImportByID(reqID, subscriptionID, directory) ==
    Import(ImportRequest(reqID, NilState, subscriptionID, directory),
           importByID(reqID, subscriptionID, directory), identity)

(***************************************************************************)
(* The specification of the resource's life cycle.                         *)
(***************************************************************************)
\* a version stored by another party before the resource's first operation
ForeignEntry(name) ==
    [ID |-> SecretID(name, ForeignVersion),
     Created |-> 0, Value |-> "foreign-value", ContentType |-> Nil,
     NotBefore |-> NilTime, Expires |-> NilTime, Tags |-> NilMap]

\* the string IDs an import is asked for: a versioned and a versionless
\* secret URI of the vault, a URI of a vault the directory does not know, and
\* a string that is no secret URI
ImportIDs ==
    {SecretID(n, VersionIDs[1]) : n \in Names}
    \cup {VaultURL \o "/secrets/" \o n : n \in Names}
    \cup {"https://gone.vault.azure.net/secrets/s1/" \o VersionIDs[1], "kv/s1"}

\* the vault names of those IDs, parsed once
ImportVaultNames == [id \in ImportIDs |-> extractVaultNameAndName(id).vaultName]
ImportVaultName(reqID) == ImportVaultNames[reqID]

\* the subscription the provider is configured with: none, or the vault's
Subscriptions == {"", "sub"}

NoInvocation == Invocation("none", "", <<>>)

Init ==
    /\ vault \in {[n \in Names |-> IF n \in S THEN <<ForeignEntry(n)>> ELSE <<>>] :
                    S \in SUBSET Names}
    /\ minted = 0
    /\ now = 0
    /\ state = NilState
    /\ identity = NilState
    /\ plan = NoPlan
    /\ last = NoInvocation
    /\ listing = <<>>
    /\ dsConfig = NullModel
    /\ dsState = NilState
    /\ createdRecord = NilState
    /\ importedRecord = NilState
    /\ InitClient
    /\ codec = NoCodec
    /\ instances = NoInstances
    /\ secrets = NoSecrets

\* the operations in any order; no scenario is followed
Next ==
    \/ \E config \in ApplyConfigs, upstream \in BOOLEAN, elapsed \in 0 .. 1 :
          Create(config, upstream, elapsed) /\ UNCHANGED <<createdRecord, importedRecord, clientVars, codec, sharedVars>>
    \/ /\ ~state.nil
       /\ \E pages \in ListingsOf(vault[ValueString(state.v.name)]) : Read(pages)
       /\ UNCHANGED <<createdRecord, importedRecord, clientVars, codec, sharedVars>>
    \/ \E upstream \in BOOLEAN : Delete(upstream) /\ UNCHANGED <<createdRecord, importedRecord, clientVars, codec, sharedVars>>
    \/ /\ Whole(state)
       /\ \E config \in PlanConfigs(state.v) : Plan(config)
       /\ UNCHANGED <<createdRecord, importedRecord, clientVars, codec, sharedVars>>
    \/ \E secretValue \in SecretValues, c \in Counters :
          /\ PlanFinal(secretValue, Int32Value(c))
          /\ UNCHANGED <<createdRecord, importedRecord, clientVars, codec, sharedVars>>
    \/ \E secretValue \in SecretValues, c \in Counters, upstream \in BOOLEAN,
          elapsed \in 0 .. 1 :
          Update(secretValue, Int32Value(c), upstream, elapsed) /\ UNCHANGED <<createdRecord, importedRecord, clientVars, codec, sharedVars>>
    \/ /\ state.nil
       /\ \E n \in Names, subscriptionID \in Subscriptions :
             \E pages \in ListingsOf(vault[n]) :
                ImportByIdentity([name |-> StringValue(n),
                                  key_vault_id |-> StringValue(KeyVaultID)],
                                 subscriptionID, pages)
       /\ UNCHANGED <<createdRecord, importedRecord, clientVars, codec, sharedVars>>
    \/ /\ state.nil
       /\ \E reqID \in ImportIDs, subscriptionID \in Subscriptions :
             \E directory \in DirectoryListings(ImportVaultName(reqID)) :
                ImportByID(reqID, subscriptionID, directory)
       /\ UNCHANGED <<createdRecord, importedRecord, clientVars, codec, sharedVars>>

Spec == Init /\ [][Next]_vars

(***************************************************************************)
(* The scenario of the update test: a secret is created with a             *)
(* configuration of the tests, then updates of wholly known                *)
(* configurations, those of the tests and another a user may write, are    *)
(* planned and applied, the record refreshed before a plan and after an   *)
(* apply; createdRecord keeps the record Create answered.                  *)
(***************************************************************************)
NextApply ==
    \/ \E config \in ApplyConfigs, upstream \in BOOLEAN, elapsed \in 0 .. 1 :
          /\ Create(config, upstream, elapsed)
          /\ createdRecord' = IF last'.err = "" THEN state' ELSE createdRecord
          /\ UNCHANGED <<importedRecord, clientVars, codec, sharedVars>>
    \/ /\ ~state.nil
       /\ \E pages \in ListingsOf(vault[ValueString(state.v.name)]) : Read(pages)
       /\ UNCHANGED <<createdRecord, importedRecord, clientVars, codec, sharedVars>>
    \/ /\ Whole(state)
       /\ \E config \in {c \in UserPlanConfigs(state.v) :
                           c.value_wo.st = "known" /\ c.value_wo_version.st = "known"} :
             Plan(config)
       /\ UNCHANGED <<createdRecord, importedRecord, clientVars, codec, sharedVars>>
    \/ \E secretValue \in SecretValues, c \in Counters, upstream \in BOOLEAN,
          elapsed \in 0 .. 1 :
          Update(secretValue, Int32Value(c), upstream, elapsed) /\ UNCHANGED <<createdRecord, importedRecord, clientVars, codec, sharedVars>>

SpecApply == Init /\ [][NextApply]_vars

(***************************************************************************)
(* The scenario of the import steps of the tests, over the configurations  *)
(* of the tests and another a user may write: a secret is created, the     *)
(* record is imported anew into a state that does not hold it, and read.   *)
(***************************************************************************)
\* the orchestrator turns to a state that holds no record of the resource
\* (the state an import step imports into); the vault is not touched
Forget ==
    /\ ~state.nil
    /\ state' = NilState
    /\ identity' = NilState
    /\ plan' = NoPlan
    /\ last' = Invocation("Forget", "", <<>>)
    /\ UNCHANGED <<vault, minted, now, listing, dsConfig, dsState>>

NextImport ==
    \/ \E config \in UserConfigs, upstream \in BOOLEAN, elapsed \in 0 .. 1 :
          /\ Create(config, upstream, elapsed)
          /\ createdRecord' = IF last'.err = "" THEN state' ELSE createdRecord
          /\ UNCHANGED <<importedRecord, clientVars, codec, sharedVars>>
    \/ Forget /\ UNCHANGED <<createdRecord, importedRecord, clientVars, codec, sharedVars>>
    \/ /\ state.nil
       /\ \E n \in Names, subscriptionID \in Subscriptions :
             \E pages \in ListingsOf(vault[n]) :
                ImportByIdentity([name |-> StringValue(n),
                                  key_vault_id |-> StringValue(KeyVaultID)],
                                 subscriptionID, pages)
       /\ UNCHANGED <<createdRecord, importedRecord, clientVars, codec, sharedVars>>
    \/ /\ state.nil
       /\ \E reqID \in ImportIDs, subscriptionID \in Subscriptions :
             \E directory \in DirectoryListings(ImportVaultName(reqID)) :
                ImportByID(reqID, subscriptionID, directory)
       /\ UNCHANGED <<createdRecord, importedRecord, clientVars, codec, sharedVars>>
    \/ /\ ~state.nil
       /\ \E pages \in ListingsOf(vault[ValueString(state.v.name)]) : Read(pages)
       /\ UNCHANGED <<createdRecord, importedRecord, clientVars, codec, sharedVars>>

SpecImport == Init /\ [][NextImport]_vars

(***************************************************************************)
(* The scenario of a secret taken over by import: a secret is created, the *)
(* record is imported into a state that does not hold it and read, then    *)
(* updates are planned and applied; importedRecord keeps the identity of   *)
(* the record the import answered until a Create or an Update answers      *)
(* another.  The secret is created once, with the basic configuration;     *)
(* the record forgotten is the created one; the imports are those of the   *)
(* tests, with the identity or with the ID of the secret, the directory    *)
(* listing the vault; the refreshes and the updates planned are those of   *)
(* the imported record, and the scenario ends with the first update        *)
(* applied.                                                                *)
(***************************************************************************)
\* the configurations of the Create of the scenario: the basic one of the
\* tests, no optional attribute set, with either value_wo_version
BasicConfigs == {config \in ApplyConfigs : IsNull(config.content_type) /\ IsNull(config.tags)}

NextReimport ==
    \/ \E config \in BasicConfigs, upstream \in BOOLEAN, elapsed \in 0 .. 1 :
          /\ createdRecord.nil
          /\ Create(config, upstream, elapsed)
          /\ createdRecord' = IF last'.err = "" THEN state' ELSE createdRecord
          /\ importedRecord' = IF last'.err = "" THEN NilState ELSE importedRecord
          /\ UNCHANGED <<clientVars, codec, sharedVars>>
    \/ /\ importedRecord.nil
       /\ last.op # "Update"
       /\ Forget
       /\ UNCHANGED <<createdRecord, importedRecord, clientVars, codec, sharedVars>>
    \/ /\ state.nil
       /\ \E n \in Names : \E pages \in ListingsOf(vault[n]) :
             ImportByIdentity([name |-> StringValue(n),
                               key_vault_id |-> StringValue(KeyVaultID)],
                              "", pages)
       /\ importedRecord' = IF last'.err = "" THEN Some(IdentityOf(state'.v))
                            ELSE importedRecord
       /\ UNCHANGED <<createdRecord, clientVars, codec, sharedVars>>
    \/ /\ state.nil
       /\ \E n \in Names :
             ImportByID(SecretID(n, VersionIDs[1]), "sub", <<DirectoryPage(<<KeyVaultID>>)>>)
       /\ importedRecord' = IF last'.err = "" THEN Some(IdentityOf(state'.v))
                            ELSE importedRecord
       /\ UNCHANGED <<createdRecord, clientVars, codec, sharedVars>>
    \/ /\ ~state.nil
       /\ ~importedRecord.nil
       /\ \E pages \in ListingsOf(vault[ValueString(state.v.name)]) : Read(pages)
       /\ UNCHANGED <<createdRecord, importedRecord, clientVars, codec, sharedVars>>
    \/ /\ Whole(state)
       /\ ~importedRecord.nil
       /\ \E config \in PlanConfigs(state.v) : Plan(config)
       /\ UNCHANGED <<createdRecord, importedRecord, clientVars, codec, sharedVars>>
    \/ \E secretValue \in SecretValues, c \in Counters :
          /\ PlanFinal(secretValue, Int32Value(c))
          /\ UNCHANGED <<createdRecord, importedRecord, clientVars, codec, sharedVars>>
    \/ \E secretValue \in SecretValues, c \in Counters, upstream \in BOOLEAN,
          elapsed \in 0 .. 1 :
          /\ Update(secretValue, Int32Value(c), upstream, elapsed)
          /\ importedRecord' = IF last'.err = "" THEN NilState ELSE importedRecord
          /\ UNCHANGED <<createdRecord, clientVars, codec, sharedVars>>

SpecReimport == Init /\ [][NextReimport]_vars

(***************************************************************************)
(* The data source and the specification of its version lookup: a listing  *)
(* and a configuration are drawn, SecretDataSource.Read answers.           *)
(***************************************************************************)
\* SecretDataSourceModel of a configuration
DataSourceModel(name, keyVaultID, version) ==
    [name |-> name, key_vault_id |-> keyVaultID, id |-> StringNull,
     versionless_id |-> StringNull, content_type |-> StringNull,
     not_before_date |-> StringNull, expiration_date |-> StringNull,
     version |-> version, resource_id |-> StringNull,
     resource_versionless_id |-> StringNull, tags |-> MapNull]

\* the versions a drawn listing can show, and the entry of one
ListedVersions == {VersionIDs[i] : i \in 1 .. MaxEntries}
ListedEntry(name, version, created) ==
    [ID |-> SecretID(name, version), Created |-> created, ContentType |-> Nil,
     NotBefore |-> NilTime, Expires |-> NilTime, Tags |-> NilMap]

\* the entries of a listing before paging: up to MaxEntries versions, each
\* listed once and named by its place in the listing (the identifiers are
\* opaque), created in second 0, 1 or 2
FlatListings(name) ==
    UNION {{[i \in 1 .. n |-> ListedEntry(name, VersionIDs[i], cs[i])] :
                cs \in [1 .. n -> 0 .. 2]} :
           n \in 0 .. MaxEntries}

\* the ways to cut n entries into k pages (a page may be empty): where each
\* page ends
Cuts(n, k) ==
    {c \in [1 .. k -> 0 .. n] :
        /\ c[k] = n
        /\ \A p \in 1 .. (k - 1) : c[p] <= c[p + 1]}

\* entries cut into pages at c, the fetch of page failAt failing (0: none)
Paged(entries, c, failAt) ==
    [p \in DOMAIN c |->
        IF p = failAt THEN [err |-> TRUE, Value |-> <<>>]
        ELSE [err |-> FALSE,
              Value |-> SubSeq(entries, (IF p = 1 THEN 0 ELSE c[p - 1]) + 1, c[p])]]

Listings(name) ==
    UNION {{Paged(entries, c, failAt) : c \in Cuts(Len(entries), k), failAt \in 0 .. k} :
           entries \in FlatListings(name), k \in 1 .. MaxPages}

\* the entries of all the pages of a listing, in order
RECURSIVE Entries(_)
Entries(pages) ==
    IF pages = <<>> THEN <<>> ELSE Head(pages).Value \o Entries(Tail(pages))

\* SecretDataSource.Read: the diagnostics, the entry the lookup answered and
\* the state answered
SecretDataSourceRead ==
    /\ dsState.nil
    /\ LET model == dsConfig
           r == GetSecretProperties(ValueString(model.key_vault_id), listing,
                                    ValueString(model.version))
           secretProperties == r.secret.v
       IN  dsState' =
              IF r.err # ""
              THEN Some([err |-> r.err, secret |-> NilSecret, state |-> NullModel])
              ELSE Some([err |-> "", secret |-> r.secret,
                         state |-> SchemaSemanticEquality(model,
                                      setSecretData(model, secretProperties.ID,
                                                    secretProperties,
                                                    secretProperties.ContentType,
                                                    secretProperties.Tags))])
    /\ UNCHANGED <<vault, minted, now, state, identity, plan, last, listing, dsConfig,
                   createdRecord, importedRecord, clientVars, codec, sharedVars>>

InitResolve ==
    /\ vault = [n \in Names |-> <<>>]
    /\ minted = 0
    /\ now = 0
    /\ state = NilState
    /\ identity = NilState
    /\ plan = NoPlan
    /\ last = NoInvocation
    /\ \E n \in Names :
          /\ listing \in Listings(n)
          /\ dsConfig \in {DataSourceModel(StringValue(n), StringValue(KeyVaultID), v) :
                              v \in {StringNull} \cup {StringValue(x) : x \in ListedVersions}}
    /\ dsState = NilState
    /\ createdRecord = NilState
    /\ importedRecord = NilState
    /\ InitClient
    /\ codec = NoCodec
    /\ instances = NoInstances
    /\ secrets = NoSecrets

NextResolve == SecretDataSourceRead

SpecResolve == InitResolve /\ [][NextResolve]_vars

(***************************************************************************)
(* The specification of the identity codec: a key vault ID is drawn, put   *)
(* together from its parts, and extractVaultName is applied to it.         *)
(***************************************************************************)
\* the parts of the key vault IDs drawn: what precedes /subscriptions, the
\* subscription, the resource group segment (whole, without a group, or
\* missing), the provider namespace, the vault name, what follows it
KeyVaultIDParts ==
    [lead : {"", "x"},
     subscription : {"sub", ""},
     resourceGroup : {"/resourceGroups/rg", "/resourceGroups/", ""},
     provider : {"Microsoft.KeyVault", "MicrosoftXKeyVault", "Microsoft.Storage"},
     name : {"kv", "my-vault", ""},
     trail : {"", "/", "/secrets/s1"}]

ComposeKeyVaultID(parts) ==
    parts.lead \o "/subscriptions/" \o parts.subscription \o parts.resourceGroup
    \o "/providers/" \o parts.provider \o "/vaults/" \o parts.name \o parts.trail

InitCodec ==
    /\ vault = [n \in Names |-> <<>>]
    /\ minted = 0
    /\ now = 0
    /\ state = NilState
    /\ identity = NilState
    /\ plan = NoPlan
    /\ last = NoInvocation
    /\ listing = <<>>
    /\ dsConfig = NullModel
    /\ dsState = NilState
    /\ createdRecord = NilState
    /\ importedRecord = NilState
    /\ InitClient
    /\ \E parts \in KeyVaultIDParts :
          codec = [nil |-> FALSE, parts |-> parts,
                   keyVaultID |-> ComposeKeyVaultID(parts), answered |-> FALSE]
    /\ instances = NoInstances
    /\ secrets = NoSecrets

\* extractVaultName is applied to the ID drawn
ExtractVaultName ==
    /\ ~codec.nil
    /\ ~codec.answered
    /\ codec' = [nil |-> FALSE, parts |-> codec.parts, keyVaultID |-> codec.keyVaultID,
                 answered |-> TRUE, answer |-> extractVaultName(codec.keyVaultID)]
    /\ UNCHANGED <<vault, minted, now, state, identity, plan, last, listing, dsConfig,
                   dsState, createdRecord, importedRecord, clientVars, sharedVars>>

NextCodec == ExtractVaultName

SpecCodec == InitCodec /\ [][NextCodec]_vars

(***************************************************************************)
(* The specification of the import with a string ID: string IDs put        *)
(* together from their parts are handed to ImportState, the provider       *)
(* configured with or without a subscription, the Resource Directory       *)
(* answering for the vault name it is asked for.                           *)
(***************************************************************************)
\* the parts of the string IDs: the scheme, the vault name, the rest of the
\* host, the collection, the secret name, what follows it
LegacyIDParts ==
    [scheme : {"https://", "http://"},
     vault : {"kv", "gone", ""},
     host : {".vault.azure.net", ".vaultXazure.net", ".vault.azureXnet",
             "Xvault.azure.net", ".vault.azure.com"},
     collection : {"/secrets/", "/keys/"},
     name : {"s1", ""},
     tail : {"", "/f3a", "/f3a/extra"}]

ComposeLegacyID(parts) ==
    parts.scheme \o parts.vault \o parts.host \o parts.collection \o parts.name
    \o parts.tail

LegacyIDs == {ComposeLegacyID(parts) : parts \in LegacyIDParts}

\* the vault names extractVaultNameAndName reads out of those IDs, parsed once
LegacyVaultNames == [id \in LegacyIDs |-> extractVaultNameAndName(id).vaultName]

\* an import step is one invocation of ImportState: after a refused import
\* the orchestrator imports nothing more, after an accepted one it may turn
\* to an empty state and import anew
NextLegacyID ==
    \/ /\ state.nil
       /\ last.op # "ImportState"
       /\ \E reqID \in LegacyIDs, subscriptionID \in Subscriptions :
             \E directory \in DirectoryListings(LegacyVaultNames[reqID]) :
                ImportByID(reqID, subscriptionID, directory)
       /\ UNCHANGED <<createdRecord, importedRecord, clientVars, codec, sharedVars>>
    \/ Forget /\ UNCHANGED <<createdRecord, importedRecord, clientVars, codec, sharedVars>>

SpecLegacyID == Init /\ [][NextLegacyID]_vars

(***************************************************************************)
(* The specification of the concurrent callers of one client.              *)
(***************************************************************************)
lifecycleVars == <<vault, minted, now, state, identity, plan, last, listing, dsConfig,
                   dsState, createdRecord, importedRecord>>

InitConcurrent ==
    /\ vault = [n \in Names |-> <<>>]
    /\ minted = 0
    /\ now = 0
    /\ state = NilState
    /\ identity = NilState
    /\ plan = NoPlan
    /\ last = NoInvocation
    /\ listing = <<>>
    /\ dsConfig = NullModel
    /\ dsState = NilState
    /\ createdRecord = NilState
    /\ importedRecord = NilState
    /\ InitClient
    /\ codec = NoCodec
    /\ instances = NoInstances
    /\ secrets = NoSecrets

NextConcurrent ==
    \/ \E g \in Goroutines, op \in ClientCalls, keyVaultID \in ClientKeyVaultIDs :
          CallClient(g, op, keyVaultID) /\ UNCHANGED <<lifecycleVars, codec, sharedVars>>
    \/ \E g \in Goroutines : Lock(g) /\ UNCHANGED <<lifecycleVars, codec, sharedVars>>
    \/ \E g \in Goroutines : LookUp(g) /\ UNCHANGED <<lifecycleVars, codec, sharedVars>>
    \/ \E g \in Goroutines, failed \in BOOLEAN :
          Construct(g, failed) /\ UNCHANGED <<lifecycleVars, codec, sharedVars>>
    \/ \E g \in Goroutines : Send(g) /\ UNCHANGED <<lifecycleVars, codec, sharedVars>>
    \/ \E g \in Goroutines : Return(g) /\ UNCHANGED <<lifecycleVars, codec, sharedVars>>

SpecConcurrent == InitConcurrent /\ [][NextConcurrent]_vars

(***************************************************************************)
(* The specification of the instances that share one client.  Every        *)
(* caller stands for the invocations of one resource instance, a (key      *)
(* vault ID, secret name) of its own.  Create, Read, Update and Delete     *)
(* reach the vault through one call of the client each (SetSecret;         *)
(* GetSecretProperties; SetSecret or UpdateSecretProperties;               *)
(* DeleteSecret), and the vault the client dials serves the call on the    *)
(* secret the call names.  The callers being alike, the instance of the    *)
(* first one is fixed, and the others differ from it in the vault or in    *)
(* the name; the secret of the first one is yet to be created, the others  *)
(* hold a version another party stored; the key vault IDs being well       *)
(* formed and NewClient answering a client, every call reaches the vault.  *)
(***************************************************************************)
SharedKeyVaultIDs ==
    {KeyVaultID,
     "/subscriptions/sub/resourceGroups/rg/providers/Microsoft.KeyVault/vaults/kv2"}
SharedNames == {"s1", "s2"}
SharedInstances == [keyVaultID : SharedKeyVaultIDs, name : SharedNames]

\* the secret an instance is configured for: the vault its key vault ID
\* names, and its name
SecretOf(instance) == <<extractedVaultNames[instance.keyVaultID].name, instance.name>>
SharedSecrets == {SecretOf(instance) : instance \in SharedInstances}

\* the parameters the handlers hand to SetSecret and, less the value, to
\* UpdateSecretProperties: those Create builds from the plan of the basic
\* configuration
SharedParameters ==
    {SetSecretParameters(NullifyWriteOnly(CreatePlan(config)), ValueString(config.value_wo)) :
        config \in BasicConfigs}

\* the ID the vault vaultName gives a version of a secret
SharedSecretID(vaultName, name, version) ==
    "https://" \o vaultName \o ".vault.azure.net/secrets/" \o name \o "/" \o version

\* a version another party stored in a vault before the instances' calls
ForeignShared(k) ==
    [ForeignEntry(k[2]) EXCEPT !.ID = SharedSecretID(k[1], k[2], ForeignVersion)]

InitShared ==
    /\ vault = [n \in Names |-> <<>>]
    /\ minted = 0
    /\ now = 0
    /\ state = NilState
    /\ identity = NilState
    /\ plan = NoPlan
    /\ last = NoInvocation
    /\ listing = <<>>
    /\ dsConfig = NullModel
    /\ dsState = NilState
    /\ createdRecord = NilState
    /\ importedRecord = NilState
    /\ InitClient
    /\ codec = NoCodec
    /\ instances \in
          {f \in [Goroutines -> SharedInstances] :
              /\ f[1] = [keyVaultID |-> KeyVaultID, name |-> "s1"]
              /\ \A g \in Goroutines : f[g].name = "s1" \/ f[g].keyVaultID = KeyVaultID
              /\ \A g, h \in Goroutines : g # h => SecretOf(f[g]) # SecretOf(f[h])}
    /\ secrets = [k \in SharedSecrets |->
                     IF k = SecretOf(instances[1]) THEN <<>> ELSE <<ForeignShared(k)>>]

\* the secret a call in flight reaches: the one of the call's name in the
\* vault the caller's client was constructed for
ServedSecret(g) == <<goroutines[g].vaultName, instances[g].name>>

\* the vault serves the call in flight of caller g and the call returns:
\* SetSecret stores a new version of the secret (its identifier is the
\* vault's choice, here one per caller and call), UpdateSecretProperties
\* rewrites the metadata of the version addressed (refused when there is
\* none), DeleteSecret removes the secret with all its versions (refused when
\* there is none), GetSecretProperties lists the versions of the secret
Serve(g, parameters, version) ==
    /\ goroutines[g].pc = "inflight"
    /\ LET k == ServedSecret(g)
           versions == secrets[k]
           op == goroutines[g].op
           target == TargetIndex(versions, version)
           n == (g - 1) * MaxCalls + goroutines[g].calls
           e == [MintedVersion(k[2], parameters, n, now) EXCEPT
                    !.ID = SharedSecretID(k[1], k[2], VersionIDs[n])]
           u == UpdatedVersion(versions[target],
                               [ContentType |-> parameters.ContentType,
                                SecretAttributes |-> parameters.SecretAttributes,
                                Tags |-> parameters.Tags])
       IN  CASE op = "SetSecret" ->
                   secrets' = [secrets EXCEPT ![k] = Append(@, e)]
             [] op = "UpdateSecretProperties" /\ target # 0 ->
                   secrets' = [secrets EXCEPT ![k][target] = u]
             [] op = "DeleteSecret" /\ versions # <<>> ->
                   secrets' = [secrets EXCEPT ![k] = <<>>]
             [] OTHER -> UNCHANGED secrets
    /\ Return(g)
    /\ UNCHANGED <<vault, minted, now, state, identity, plan, last, listing, dsConfig, dsState,
                   createdRecord, importedRecord, codec, instances>>

\* the versions an UpdateSecretProperties of caller g may address: the
\* current one (no version given), or one the secret holds
AddressableVersions(g) ==
    {""} \cup {IDVersion(secrets[ServedSecret(g)][i].ID) : i \in DOMAIN secrets[ServedSecret(g)]}

NextShared ==
    \/ \E g \in Goroutines, op \in ClientCalls :
          CallClient(g, op, instances[g].keyVaultID)
          /\ UNCHANGED <<lifecycleVars, codec, sharedVars>>
    \/ \E g \in Goroutines : Lock(g) /\ UNCHANGED <<lifecycleVars, codec, sharedVars>>
    \/ \E g \in Goroutines : LookUp(g) /\ UNCHANGED <<lifecycleVars, codec, sharedVars>>
    \/ \E g \in Goroutines :
          Construct(g, FALSE) /\ UNCHANGED <<lifecycleVars, codec, sharedVars>>
    \/ \E g \in Goroutines : Send(g) /\ UNCHANGED <<lifecycleVars, codec, sharedVars>>
    \/ \E g \in Goroutines, parameters \in SharedParameters :
          /\ goroutines[g].pc = "inflight"
          /\ \E version \in AddressableVersions(g) : Serve(g, parameters, version)

SpecShared == InitShared /\ [][NextShared]_vars

(***************************************************************************)
(* Properties of the version lookup, checked under SpecResolve.            *)
(***************************************************************************)
\* the data source has answered for the listing drawn
Answered == ~dsState.nil
\* every page of the listing was fetched
AllFetched == \A p \in DOMAIN listing : ~listing[p].err
\* the version the configuration asks for, "" when it asks for none
Requested == ValueString(dsConfig.version)
\* the Created timestamps of all the entries of the listing
CreatedOf(entries) == {entries[i].Created : i \in DOMAIN entries}

\* C1: a lookup of an explicit version v over a listing whose pages were all
\* fetched answers an entry exactly when some entry of some page has version
\* v, and the entry it answers has version v.
C1_ExplicitVersionExact ==
    (Answered /\ AllFetched /\ Requested # "") =>
        LET entries == Entries(listing)
            listed == \E i \in DOMAIN entries : IDVersion(entries[i].ID) = Requested
        IN  /\ (dsState.v.err = "") <=> listed
            /\ (dsState.v.err = "") => IDVersion(dsState.v.secret.v.ID) = Requested

\* the lookup of an explicit version has answered an entry of another version
\* although the listing carries the version asked for
C1_AnsweredAnotherVersion ==
    /\ Answered /\ AllFetched /\ Requested # ""
    /\ \E i \in DOMAIN Entries(listing) : IDVersion(Entries(listing)[i].ID) = Requested
    /\ dsState.v.err = ""
    /\ IDVersion(dsState.v.secret.v.ID) # Requested

\* C2: a lookup without a version over a listing whose pages were all fetched
\* and that carries an entry answers an entry of the listing whose Created
\* is the maximum over the entries of all the pages.
C2_LatestOverAllPages ==
    (Answered /\ AllFetched /\ Requested = "" /\ Entries(listing) # <<>>) =>
        LET entries == Entries(listing)
        IN  /\ dsState.v.err = ""
            /\ \E i \in DOMAIN entries : Properties(entries[i]) = dsState.v.secret.v
            /\ dsState.v.secret.v.Created = Max(CreatedOf(entries))
            /\ ValueString(dsState.v.state.version) = IDVersion(dsState.v.secret.v.ID)

\* the lookup without a version has answered the entry of a middle page: three
\* pages carry one entry each, the second one created after the other two
C2_LatestInMiddlePage ==
    /\ Answered /\ AllFetched /\ Requested = ""
    /\ Len(listing) = 3
    /\ \A p \in 1 .. 3 : Len(listing[p].Value) = 1
    /\ listing[2].Value[1].Created > listing[1].Value[1].Created
    /\ listing[2].Value[1].Created > listing[3].Value[1].Created
    /\ dsState.v.err = ""
    /\ dsState.v.secret.v = listing[2].Value[1]

(***************************************************************************)
(* Properties of the resource's life cycle, checked under Spec.  A step of *)
(* a handler is told by the invocation it leaves in last; within such a     *)
(* step state and plan are the prior state and the plan applied, state'     *)
(* and vault' what the handler left.                                        *)
(***************************************************************************)
\* the step is one of Create, and one of Update applying the plan held
CreateStep == last'.op = "Create" /\ state.nil
UpdateStep == last'.op = "Update" /\ ~plan.nil /\ ~state.nil
\* the step reported no error
Succeeded == last'.err = ""
\* the versions the vault keeps of the secret of the record, before and after
PriorVersions == vault[ValueString(state.v.name)]
NewVersions == vault'[ValueString(state'.v.name)]
VersionsOf(versions) == {IDVersion(versions[i].ID) : i \in DOMAIN versions}

\* the value_wo_version of the plan the Update step applies equals that of
\* the prior state (the plan applied is a final one, its value_wo_version
\* is known)
SameCounter == plan.v.planned.value_wo_version = state.v.value_wo_version
ChangedCounter == plan.v.planned.value_wo_version # state.v.value_wo_version

\* the record shows the stored version e: the identifiers are those of e under
\* the record's vault, and content type, validity window and tags are e's (a
\* timestamp names e's instant; what e leaves unset is unset or empty)
RecordShows(record, e) ==
    LET versionless == ValueString(record.key_vault_id) \o "/secrets/" \o IDName(e.ID)
    IN  /\ record.id = StringValue(e.ID)
        /\ record.version = StringValue(IDVersion(e.ID))
        /\ record.versionless_id = StringValue(VaultURL \o "/secrets/" \o IDName(e.ID))
        /\ record.resource_versionless_id = StringValue(versionless)
        /\ record.resource_id =
              StringValue(versionless \o "/versions/" \o IDVersion(e.ID))
        /\ IF e.ContentType.nil
           THEN IsNull(record.content_type) \/ record.content_type = StringValue("")
           ELSE record.content_type = StringValue(e.ContentType.v)
        /\ IF e.NotBefore.nil THEN IsNull(record.not_before_date)
           ELSE /\ record.not_before_date.st = "known"
                /\ ValueRFC3339Time(record.not_before_date.v) = e.NotBefore.v
        /\ IF e.Expires.nil THEN IsNull(record.expiration_date)
           ELSE /\ record.expiration_date.st = "known"
                /\ ValueRFC3339Time(record.expiration_date.v) = e.Expires.v
        /\ IF e.Tags.nil
           THEN IsNull(record.tags) \/ record.tags = MapValue({})
           ELSE record.tags = MapValue(e.Tags.v)

\* C3: an Update whose value_wo_version equals that of the prior state calls
\* UpdateSecretProperties only, mints no version, and leaves the version and
\* the id of the record as they were in the prior state.
C3_SameCounterKeepsVersion ==
    [][(UpdateStep /\ SameCounter) =>
          /\ last'.calls = <<"UpdateSecretProperties">>
          /\ minted' = minted
          /\ Len(NewVersions) = Len(PriorVersions)
          /\ state'.v.version = state.v.version
          /\ state'.v.id = state.v.id]_vars

\* C3, for the plans that name the version: an Update whose value_wo_version
\* equals that of the prior state calls UpdateSecretProperties only and mints
\* no version; when the plan carries a known version (ModifyPlan pinned it to
\* the prior state's), version and id of the record stay those of the prior
\* state; when the plan left the version unknown, the update goes to the
\* vault's current version and the record takes its version and id.
C3_SameCounterMetadataOnly ==
    [][(UpdateStep /\ SameCounter) =>
          /\ last'.calls = <<"UpdateSecretProperties">>
          /\ minted' = minted
          /\ Len(NewVersions) = Len(PriorVersions)
          /\ IF ~Succeeded THEN state' = state
             ELSE IF ~IsUnknown(plan.v.planned.version)
             THEN /\ state'.v.version = state.v.version
                  /\ state'.v.id = state.v.id
             ELSE /\ state'.v.version = StringValue(IDVersion(Current(PriorVersions).ID))
                  /\ state'.v.id = StringValue(Current(PriorVersions).ID)]_vars

\* an Update with the prior state's value_wo_version has changed the metadata
\* of the version of the record
C3_MetadataUpdated ==
    /\ last = Invocation("Update", "", <<"UpdateSecretProperties">>)
    /\ ~state.nil
    /\ state.v.content_type = StringValue("text/plain")
    /\ \E i \in DOMAIN vault[ValueString(state.v.name)] :
          LET e == vault[ValueString(state.v.name)][i]
          IN  /\ state.v.id = StringValue(e.ID)
              /\ e.ContentType = Ptr("text/plain")

\* C4: an Update whose value_wo_version differs from that of the prior state
\* calls SetSecret and not UpdateSecretProperties; when it succeeds the vault
\* holds one more version, the version of the record is that new version,
\* which the vault did not hold before and which is not the prior state's, and
\* id and resource_id are built from the identifier the vault answered.
C4_ChangedCounterMints ==
    [][(UpdateStep /\ ChangedCounter) =>
          /\ last'.calls = <<"SetSecret">>
          /\ IF ~Succeeded
             THEN state' = state /\ vault' = vault
             ELSE LET e == Current(NewVersions)
                  IN  /\ Len(NewVersions) = Len(PriorVersions) + 1
                      /\ minted' = minted + 1
                      /\ state'.v.version = StringValue(IDVersion(e.ID))
                      /\ ValueString(state'.v.version) \notin VersionsOf(PriorVersions)
                      /\ state'.v.version # state.v.version
                      /\ state'.v.id = StringValue(e.ID)
                      /\ state'.v.resource_id =
                            StringValue(ValueString(state.v.key_vault_id) \o "/secrets/"
                                        \o ValueString(state.v.name) \o "/versions/"
                                        \o IDVersion(e.ID))]_vars

\* an Update with a changed value_wo_version has minted the second version
\* the resource stored, and the record shows it
C4_Rotated ==
    /\ last = Invocation("Update", "", <<"SetSecret">>)
    /\ ~state.nil
    /\ minted = 2
    /\ state.v.version = StringValue(VersionIDs[2])
    /\ state.v.value_wo_version = Int32Value(2)

\* the attributes of a record that hold a string
StringAttributes ==
    {"name", "key_vault_id", "id", "versionless_id", "content_type", "not_before_date",
     "expiration_date", "version", "resource_id", "resource_versionless_id", "value_wo"}

\* C5: in every state the value_wo of the persisted record is null, and no
\* string attribute of the record nor of the identity holds a secret value
\* handed to SetSecret.
C5_ValueNeverPersisted ==
    /\ state.nil \/
          /\ IsNull(state.v.value_wo)
          /\ \A a \in StringAttributes : ValueString(state.v[a]) \notin SecretValues
    /\ identity.nil \/
          /\ ValueString(identity.v.name) \notin SecretValues
          /\ ValueString(identity.v.key_vault_id) \notin SecretValues

\* the vault stores the value a Create handed to SetSecret, and a record and
\* an identity are persisted
C5_ValueStoredInVault ==
    /\ last = Invocation("Create", "", <<"SetSecret">>)
    /\ ~state.nil /\ ~identity.nil
    /\ Current(vault[ValueString(state.v.name)]).Value \in SecretValues
    /\ state.v.id = StringValue(Current(vault[ValueString(state.v.name)]).ID)

\* C6: a plan made for a prior state and a configuration whose value_wo is
\* known has id, resource_id and version known and equal to the prior state's
\* when the configured value_wo_version equals the state's, and all three
\* unknown when it differs.
C6_PlanPinsOrMarks ==
    (~plan.nil /\ ~state.nil /\ plan.v.config.value_wo.st = "known") =>
        IF plan.v.config.value_wo_version = state.v.value_wo_version
        THEN /\ plan.v.planned.id = state.v.id /\ ~IsUnknown(plan.v.planned.id)
             /\ plan.v.planned.resource_id = state.v.resource_id
             /\ ~IsUnknown(plan.v.planned.resource_id)
             /\ plan.v.planned.version = state.v.version
             /\ ~IsUnknown(plan.v.planned.version)
        ELSE /\ IsUnknown(plan.v.planned.id)
             /\ IsUnknown(plan.v.planned.resource_id)
             /\ IsUnknown(plan.v.planned.version)

\* a plan that changes the tags with value_wo known and the value_wo_version
\* of the state: the framework proposed the three unknown, ModifyPlan pinned
\* them
C6_PinnedOverMetadataChange ==
    /\ ~plan.nil /\ ~state.nil
    /\ plan.v.config.value_wo.st = "known"
    /\ plan.v.config.value_wo_version = state.v.value_wo_version
    /\ plan.v.planned.tags # state.v.tags
    /\ IsUnknown(ProposedPlan(plan.v.config, state.v).version)
    /\ plan.v.planned.version = state.v.version

\* C7: an Update that applies a plan first made while value_wo was unknown
\* in the configuration, and that succeeds, has called SetSecret and minted
\* a version, whatever the value_wo_version.
C7_UnknownValueRotates ==
    [][(UpdateStep /\ IsUnknown(plan.v.first.value_wo) /\ Succeeded) =>
          /\ last'.calls = <<"SetSecret">>
          /\ minted' = minted + 1]_vars

\* a plan first made with value_wo unknown and an unchanged
\* value_wo_version, for which ModifyPlan announced the rotation, is held
\* in its final form: the version is pinned to the record's and the plan
\* changes the record, so an Update will apply it
C7_FinalPlanPinned ==
    /\ Appliable(plan)
    /\ IsUnknown(plan.v.first.value_wo)
    /\ plan.v.first.value_wo_version = state.v.value_wo_version
    /\ ~IsUnknown(plan.v.planned.version)
    /\ plan.v.planned.version = state.v.version

\* the attributes a configuration gives differ between the framework's
\* proposal and the prior state
Differs(config, prior) ==
    LET p == ProposedPlan(config, prior)
    IN  \E a \in {"value_wo_version", "content_type", "not_before_date",
                  "expiration_date", "tags"} : p[a] # prior[a]
\* value_wo or value_wo_version is null in the configuration of the plan held
IgnoredByLifecycle ==
    /\ ~plan.nil /\ ~state.nil
    /\ IsNull(plan.v.config.value_wo) \/ IsNull(plan.v.config.value_wo_version)

\* C8: a plan made for a prior state and a configuration whose value_wo or
\* value_wo_version is null has id, resource_id and version equal to the prior
\* state's, none of them unknown.
C8_IgnoredCarriesPrior ==
    IgnoredByLifecycle =>
        /\ plan.v.planned.id = state.v.id
        /\ plan.v.planned.resource_id = state.v.resource_id
        /\ plan.v.planned.version = state.v.version

\* C8, as ModifyPlan answers: a plan made for a prior state and a
\* configuration whose value_wo or value_wo_version is null is the framework's
\* proposal untouched, whatever the other rules would do: id, resource_id and
\* version are the prior state's when no attribute of the configuration
\* differs from the prior state, and unknown when one does.
C8_IgnoredLeavesProposal ==
    IgnoredByLifecycle =>
        /\ plan.v.planned = NullifyWriteOnly(ProposedPlan(plan.v.config, state.v))
        /\ IF Differs(plan.v.config, state.v)
           THEN /\ IsUnknown(plan.v.planned.id)
                /\ IsUnknown(plan.v.planned.resource_id)
                /\ IsUnknown(plan.v.planned.version)
           ELSE /\ plan.v.planned.id = state.v.id
                /\ plan.v.planned.resource_id = state.v.resource_id
                /\ plan.v.planned.version = state.v.version

\* a plan whose configuration has value_wo null and changes the content type:
\* the three attributes are unknown in it
C8_IgnoredWithMetadataChange ==
    /\ IgnoredByLifecycle
    /\ IsNull(plan.v.config.value_wo)
    /\ plan.v.config.value_wo_version = state.v.value_wo_version
    /\ plan.v.planned.content_type # state.v.content_type
    /\ IsUnknown(plan.v.planned.version)

\* C9: a Create calls SetSecret once, whether or not the vault holds a secret
\* of that name; when it succeeds the vault holds one more version of the
\* secret, the record shows that version as the vault answered it, and the
\* identity carries the name and the key_vault_id of the plan.
C9_CreateMintsOnce ==
    [][CreateStep =>
          /\ last'.calls = <<"SetSecret">>
          /\ IF ~Succeeded
             THEN state'.nil /\ identity'.nil /\ vault' = vault
             ELSE /\ ~state'.nil /\ ~identity'.nil
                  /\ vault' = [vault EXCEPT ![ValueString(state'.v.name)] =
                                  Append(@, Current(NewVersions))]
                  /\ minted' = minted + 1
                  /\ RecordShows(state'.v, Current(NewVersions))
                  /\ state'.v.key_vault_id = StringValue(KeyVaultID)
                  /\ identity'.v = [name |-> state'.v.name,
                                    key_vault_id |-> state'.v.key_vault_id]]_vars

\* a Create has minted a version of a secret the vault already held, and the
\* record and the identity are persisted
C9_CreatedOverExisting ==
    /\ last = Invocation("Create", "", <<"SetSecret">>)
    /\ ~state.nil /\ ~identity.nil
    /\ Len(vault[ValueString(state.v.name)]) = 2
    /\ vault[ValueString(state.v.name)][1] = ForeignEntry(ValueString(state.v.name))
    /\ identity.v.name = state.v.name

\* the step is a Create or an Update that succeeded
ApplyStep == (CreateStep \/ UpdateStep) /\ Succeeded

\* C10: after a successful Create, rotating Update or metadata Update the
\* record shows the vault's current version of the secret.
C10_RecordShowsCurrent ==
    [][ApplyStep => RecordShows(state'.v, Current(NewVersions))]_vars

\* C10, with the version a metadata Update addresses: after a successful
\* Create or rotating Update the record shows the vault's current version;
\* after a successful metadata Update it shows the version the update
\* addressed, which is the current one when the plan left the version unknown
\* or the prior state's version was the current one.
C10_RecordShowsVersionWritten ==
    [][ApplyStep =>
          IF last'.calls = <<"SetSecret">>
          THEN RecordShows(state'.v, Current(NewVersions))
          ELSE /\ \E k \in DOMAIN NewVersions :
                     /\ RecordShows(state'.v, NewVersions[k])
                     /\ \A j \in DOMAIN NewVersions : j # k => NewVersions[j] = PriorVersions[j]
               /\ (IsUnknown(plan.v.planned.version)
                   \/ state.v.version = StringValue(IDVersion(Current(PriorVersions).ID)))
                     => RecordShows(state'.v, Current(NewVersions))]_vars

\* a metadata Update has written the validity window and the tags to the
\* current version of a secret that has two versions, and the record shows them
C10_MetadataOnCurrent ==
    /\ last = Invocation("Update", "", <<"UpdateSecretProperties">>)
    /\ ~state.nil
    /\ Len(vault[ValueString(state.v.name)]) = 2
    /\ ~Current(vault[ValueString(state.v.name)]).NotBefore.nil
    /\ RecordShows(state.v, Current(vault[ValueString(state.v.name)]))

(***************************************************************************)
(* Properties of the update scenario, checked under SpecApply.             *)
(***************************************************************************)
\* the stored version the record names
EntryOf(versions, record) ==
    versions[TargetIndex(versions, ValueString(record.version))]

\* the stored version e carries what the planned model sets of content type,
\* validity window and tags
CarriesPlanned(e, model) ==
    /\ e.ContentType = Ptr(ValueString(model.content_type))
    /\ e.Tags = Ptr(model.tags.v)
    /\ IsNull(model.not_before_date)
          \/ e.NotBefore = Ptr(ValueRFC3339Time(model.not_before_date.v))
    /\ IsNull(model.expiration_date)
          \/ e.Expires = Ptr(ValueRFC3339Time(model.expiration_date.v))

\* C11: after Create answered a record of version v1, a successful Update
\* with the value_wo_version of the record writes the planned content type,
\* validity window and tags to the version of the record, mints nothing,
\* answers a record that shows that version with its new metadata, and the
\* record's version and id stay v1's as long as no version was minted since;
\* a successful Update with another value_wo_version answers a record whose
\* version is a new one, different from v1 and from the prior state's.
C11_MetadataThenRotation ==
    [][(UpdateStep /\ Succeeded /\ ~createdRecord.nil) =>
          IF SameCounter
          THEN /\ minted' = minted
               /\ last'.calls = <<"UpdateSecretProperties">>
               /\ state'.v.version = state.v.version
               /\ state'.v.id = state.v.id
               /\ (state.v.version = createdRecord.v.version
                      => state'.v.version = createdRecord.v.version)
               /\ CarriesPlanned(EntryOf(NewVersions, state.v), plan.v.planned)
               /\ RecordShows(state'.v, EntryOf(NewVersions, state.v))
               /\ state'.v.content_type = plan.v.planned.content_type
               /\ state'.v.tags = plan.v.planned.tags
          ELSE /\ state'.v.version # createdRecord.v.version
               /\ state'.v.version # state.v.version
               /\ ValueString(state'.v.version) \notin VersionsOf(PriorVersions)
               /\ RecordShows(state'.v, Current(NewVersions))]_vars

\* the scenario has run to its end: the version Create answered has had its
\* content type changed by an Update, and a later Update has rotated the
\* secret to another version
C11_UpdatedThenRotated ==
    /\ last = Invocation("Update", "", <<"SetSecret">>)
    /\ ~createdRecord.nil /\ ~state.nil
    /\ state.v.version # createdRecord.v.version
    /\ LET v1 == EntryOf(vault[ValueString(state.v.name)], createdRecord.v)
       IN  /\ v1.ID = ValueString(createdRecord.v.id)
           /\ v1.ContentType # Ptr(ValueString(createdRecord.v.content_type))

(***************************************************************************)
(* Properties of Read, Delete and the failures, checked under Spec.        *)
(***************************************************************************)
\* the step is one of Read
ReadStep == last'.op = "Read" /\ ~state.nil

\* C12: a Read of the resource, whether it succeeds or fails, calls nothing
\* of the vault but the listing of the versions, and the vault's secrets,
\* their versions, values and metadata are after it what they were before.
C12_ReadLeavesVault ==
    [][ReadStep =>
          /\ vault' = vault
          /\ minted' = minted
          /\ \A i \in DOMAIN last'.calls :
                last'.calls[i] = "ListSecretPropertiesVersions"]_vars

\* a Read has answered for a secret of several versions whose metadata differ
C12_ReadOverVersions ==
    /\ last = Invocation("Read", "", <<"ListSecretPropertiesVersions">>)
    /\ ~state.nil
    /\ LET versions == vault[ValueString(state.v.name)]
       IN  /\ Len(versions) >= 2
           /\ \E i, j \in DOMAIN versions : versions[i].Tags # versions[j].Tags

\* the step is one of Delete
DeleteStep == last'.op = "Delete" /\ ~state.nil

\* every page of the listing was fetched
Fetched(pages) == \A p \in DOMAIN pages : ~pages[p].err

\* C13: a successful Delete calls DeleteSecret and leaves no version of the
\* secret of the record in the vault, so that every lookup of that secret
\* the service answers from then on, for the current version (the resource)
\* or for any version it had (the data source), fails with "not found"; no
\* lookup succeeds.
C13_DeletedIsNotFound ==
    [][(DeleteStep /\ Succeeded) =>
          LET name == ValueString(state.v.name)
              keyVaultID == ValueString(state.v.key_vault_id)
          IN  /\ last'.calls = <<"DeleteSecret">>
              /\ vault'[name] = <<>>
              /\ state'.nil
              /\ \A pages \in ListingsOf(vault'[name]),
                    version \in {""} \cup VersionsOf(PriorVersions) :
                    LET r == GetSecretProperties(keyVaultID, pages, version)
                    IN  /\ r.err # ""
                        /\ Fetched(pages) => r.err = "not found"]_vars

\* a secret of two versions minted by the resource has been deleted
C13_DeletedAllVersions ==
    /\ last = Invocation("Delete", "", <<"DeleteSecret">>)
    /\ state.nil
    /\ minted >= 2
    /\ \A n \in Names : vault[n] = <<>>

\* C14: a Create, Update or Delete whose call of the vault fails reports an
\* error and commits nothing: the record and its identity are after the step
\* exactly the prior ones (none for Create), and the vault is unchanged.
\* The calls are told to have failed by their effect: a SetSecret that
\* minted nothing, a DeleteSecret that left the vault as it was; an
\* UpdateSecretProperties that failed is told by the error alone.
C14_FailureCommitsNothing ==
    [][(CreateStep \/ UpdateStep \/ DeleteStep) =>
          /\ (last'.calls = <<"SetSecret">> /\ minted' = minted) => ~Succeeded
          /\ (last'.calls = <<"DeleteSecret">> /\ vault' = vault) => ~Succeeded
          /\ ~Succeeded =>
                /\ last'.err \in {"Failed to Set Secret",
                                  "Failed to Update Secret Properties",
                                  "Failed to Delete Secret"}
                /\ state' = state
                /\ identity' = identity
                /\ vault' = vault
                /\ minted' = minted]_vars

\* an Update that was to rotate the secret has failed at SetSecret, the
\* record still there and whole
C14_UpdateFailedAtSetSecret ==
    /\ last = Invocation("Update", "Failed to Set Secret", <<"SetSecret">>)
    /\ Whole(state)
    /\ ~identity.nil

(***************************************************************************)
(* Properties of the import, checked under Spec.  An import leaves in last *)
(* its request, its diagnostics, its calls and the state of the handler's  *)
(* response; state is what the orchestrator kept of it.                    *)
(***************************************************************************)
Imported == last.op = "ImportState"
ImportFailed == Imported /\ last.err # ""
ImportSucceeded == Imported /\ last.err = ""
\* the import was given a string ID, or a structured identity
ByID == last.req.Identity.nil
ByIdentity == ~last.req.Identity.nil

\* C15: when an import fails (no subscription configured, an ID that is no
\* secret URI, no vault found by the Resource Directory, a failed lookup of
\* the version), the state of the response has no attribute set: id, name,
\* key_vault_id and value_wo_version are all null.
C15_FailedImportWritesNothing ==
    ImportFailed => last.resp = NullModel

\* C15, as the handler behaves: a failed import with an identity sets
\* nothing; a failed import with a string ID has always set id to that
\* string, and when it is the directory lookup that failed also name,
\* key_vault_id (empty) and value_wo_version (1); whatever the response
\* carries, the orchestrator keeps no record and no identity.
C15_FailedImportCommitsNothing ==
    ImportFailed =>
        /\ state.nil /\ identity.nil
        /\ ByIdentity => last.resp = NullModel
        /\ ByID =>
              LET passed == [NullModel EXCEPT !.id = StringValue(last.req.ID)]
              IN  IF last.err \in {"Missing Configuration", "Invalid ID"}
                  THEN last.resp = passed
                  ELSE /\ last.err = "Failed to Get KeyVaults"
                       /\ last.resp =
                             [passed EXCEPT
                                 !.name = StringValue(
                                     extractVaultNameAndName(last.req.ID).name),
                                 !.key_vault_id = StringValue(""),
                                 !.value_wo_version = Int32Value(1)]

\* an import has failed at the directory lookup, its response carrying the
\* attributes set before and after the failure
C15_FailedAtDirectory ==
    /\ ImportFailed
    /\ last.err = "Failed to Get KeyVaults"
    /\ last.resp.value_wo_version = Int32Value(1)
    /\ ~IsNull(last.resp.name)
    /\ state.nil

\* C16: an import with a string ID, the provider configured with no
\* subscription, fails with "Missing Configuration" and has called neither
\* the Resource Directory nor the vault, whatever the ID and whatever the
\* directory would have listed.
C16_NoSubscriptionNoCall ==
    (Imported /\ ByID /\ last.req.subscriptionID = "") =>
        /\ last.err = "Missing Configuration"
        /\ last.detail = "Subscription ID is required to import a secret"
        /\ last.calls = <<>>
        /\ state.nil

\* an import without subscription was refused although its ID is a secret
\* URI of the vault and the directory lists the vault
C16_RefusedWellFormedID ==
    /\ Imported /\ ByID
    /\ last.req.subscriptionID = ""
    /\ last.req.ID = SecretID("s1", VersionIDs[1])
    /\ last.req.directory = <<DirectoryPage(<<KeyVaultID>>)>>
    /\ last.err = "Missing Configuration"

\* the directory answered every page and no page carries a resource
ListsNoVault(directory) ==
    \A p \in DOMAIN directory : ~directory[p].err /\ directory[p].Value = <<>>

PermissionHint == "you have the \"Microsoft.KeyVault/vaults/read\" permission"

\* C17: an import with a string ID that is a secret URI, the provider
\* configured with a subscription, fails when the Resource Directory lists no
\* resource for the vault name on any page: the diagnostic is "Failed to Get
\* KeyVaults", its detail the not-found error that names the vault and ends
\* with the hint at the Microsoft.KeyVault/vaults/read permission; the
\* directory is the only collaborator called.
C17_VaultNotListed ==
    (/\ Imported /\ ByID
     /\ last.req.subscriptionID # ""
     /\ ImportVaultName(last.req.ID) # ""
     /\ ListsNoVault(last.req.directory)) =>
        /\ last.err = "Failed to Get KeyVaults"
        /\ last.detail = KeyVaultNotFound(ImportVaultName(last.req.ID))
        /\ HasSuffix(last.detail, PermissionHint)
        /\ last.calls = <<"ResourcesList">>
        /\ state.nil

\* the import of a versioned secret URI has failed after the directory
\* answered two pages, neither carrying the vault
C17_NoVaultOnTwoPages ==
    /\ Imported /\ ByID
    /\ last.req.subscriptionID = "sub"
    /\ last.req.ID = SecretID("s1", VersionIDs[1])
    /\ last.req.directory = <<DirectoryPage(<<>>), DirectoryPage(<<>>)>>
    /\ last.err = "Failed to Get KeyVaults"

(***************************************************************************)
(* Properties of the import scenario, checked under SpecImport.            *)
(***************************************************************************)
\* C18: every successful import, with an identity or with a string ID, sets
\* value_wo_version to 1 in the state it answers and the orchestrator keeps,
\* whatever value_wo_version the secret was created with.
C18_ImportedCounterIsOne ==
    ImportSucceeded =>
        /\ last.resp.value_wo_version = Int32Value(1)
        /\ ~state.nil
        /\ state.v.value_wo_version = Int32Value(1)

\* a secret created with value_wo_version 2 has been imported with its
\* string ID
C18_ImportedAfterCounterTwo ==
    /\ ImportSucceeded /\ ByID
    /\ ~createdRecord.nil
    /\ createdRecord.v.value_wo_version = Int32Value(2)
    /\ last.req.ID = ValueString(createdRecord.v.id)
    /\ ~state.nil

\* two timestamps of records are the same: both unset, or naming one instant
SameInstant(a, b) ==
    IF IsNull(a) \/ IsNull(b) THEN a = b
    ELSE ValueRFC3339Time(ValueString(a)) = ValueRFC3339Time(ValueString(b))

\* two records are equal attribute for attribute, the timestamps compared as
\* the schema compares them
SameRecord(a, b) ==
    /\ \A f \in {"name", "key_vault_id", "id", "versionless_id", "content_type",
                  "version", "resource_id", "resource_versionless_id", "tags",
                  "value_wo", "value_wo_version"} : a[f] = b[f]
    /\ SameInstant(a.not_before_date, b.not_before_date)
    /\ SameInstant(a.expiration_date, b.expiration_date)

\* the step is the successful Read that follows an import of the secret
\* Create made with value_wo_version 1
ReadOfImported ==
    /\ ReadStep /\ Succeeded
    /\ ~Whole(state)
    /\ ~createdRecord.nil
    /\ createdRecord.v.value_wo_version = Int32Value(1)
    /\ state.v.name = createdRecord.v.name
    /\ state.v.key_vault_id = createdRecord.v.key_vault_id

\* C19: when a secret was created with value_wo_version 1 and is then
\* imported and read, the record the Read answers equals, attribute for
\* attribute, the record Create answered.
C19_ImportReadRoundTrips ==
    [][ReadOfImported => SameRecord(state'.v, createdRecord.v)]_vars

\* C19, where the Read answers the version Create minted: the record equals
\* the one Create answered, the timestamps up to their notation (the record
\* of Create keeps the notation of the configuration, the Read after an
\* import writes them in UTC).
C19_RoundTripOfVersionRead ==
    [][(ReadOfImported /\ state'.v.version = createdRecord.v.version) =>
          SameRecord(state'.v, createdRecord.v)]_vars

\* an imported record has been read, and equals the one Create answered
C19_ImportedAndRead ==
    /\ last = Invocation("Read", "", <<"ListSecretPropertiesVersions">>)
    /\ ~createdRecord.nil /\ ~state.nil
    /\ createdRecord.v.value_wo_version = Int32Value(1)
    /\ SameRecord(state.v, createdRecord.v)
    /\ state.v # createdRecord.v

\* C20: an import with a structured identity looks the secret up with
\* GetSecretProperties under the key_vault_id and the name of the identity
\* and nothing else: its only call is the listing of the versions, never the
\* Resource Directory; it does not depend on a subscription (it succeeds
\* with none configured as with one); name and key_vault_id of the state are
\* those supplied, not parsed out of an ID, and the id is the one the lookup
\* answered, a version of that name in the vault.
C20_IdentityImportIsDirect ==
    (Imported /\ ByIdentity) =>
        /\ \A i \in DOMAIN last.calls :
              last.calls[i] = "ListSecretPropertiesVersions"
        /\ last.err \in {"", "Failed to Get Secret Properties"}
        /\ last.err = "" =>
              /\ last.calls = <<"ListSecretPropertiesVersions">>
              /\ last.resp.name = last.req.Identity.v.name
              /\ last.resp.key_vault_id = last.req.Identity.v.key_vault_id
              /\ \E i \in DOMAIN vault[ValueString(last.resp.name)] :
                    last.resp.id =
                       StringValue(vault[ValueString(last.resp.name)][i].ID)
              /\ state = Some(last.resp)
              /\ identity = last.req.Identity

\* an import with an identity has succeeded with no subscription configured
C20_ImportedWithoutSubscription ==
    /\ ImportSucceeded /\ ByIdentity
    /\ last.req.subscriptionID = ""
    /\ ~state.nil
    /\ state.v.key_vault_id = StringValue(KeyVaultID)

(***************************************************************************)
(* Further properties of the version lookup, checked under SpecResolve.    *)
(***************************************************************************)
\* the entry satisfies what the lookup selects: any entry when no version is
\* asked for, an entry of the version asked for otherwise
Satisfies(e) == Requested = "" \/ IDVersion(e.ID) = Requested
NoneSatisfies == \A i \in DOMAIN Entries(listing) : ~Satisfies(Entries(listing)[i])

\* C21: when every page of the listing was fetched and no entry satisfies
\* the selection (the listing is empty and no version is asked for, or no
\* entry has the version asked for), the lookup fails with the not-found
\* error and answers no entry.
C21_NoneSatisfiesIsNotFound ==
    (Answered /\ AllFetched /\ NoneSatisfies) =>
        /\ dsState.v.err = "not found"
        /\ dsState.v.secret = NilSecret

\* C21, the part that holds: a listing without any entry is not found,
\* whether a version is asked for or not.
C21_EmptyListingIsNotFound ==
    (Answered /\ AllFetched /\ Entries(listing) = <<>>) =>
        /\ dsState.v.err = "not found"
        /\ dsState.v.secret = NilSecret

\* the lookup of a version no entry has has answered an entry
C21_AnsweredUnlistedVersion ==
    /\ Answered /\ AllFetched /\ Requested # ""
    /\ Entries(listing) # <<>>
    /\ NoneSatisfies
    /\ dsState.v.err = ""
    /\ ~dsState.v.secret.nil

\* the pages whose fetch fails, and the first of them
FailingPages == {p \in DOMAIN listing : listing[p].err}
FirstFailing == CHOOSE p \in FailingPages : \A q \in FailingPages : p <= q

\* the entries of the pages before page p
EntriesBefore(p) == Entries(SubSeq(listing, 1, p - 1))

\* the lookup comes to fetch the first failing page: it has not answered
\* before (without a version asked for it answers only after the last page)
FetchFails ==
    /\ FailingPages # {}
    /\ \A i \in DOMAIN EntriesBefore(FirstFailing) :
          Satisfies(EntriesBefore(FirstFailing)[i])

\* C22: when the fetch of a page of the listing fails, the lookup answers
\* the upstream error and no entry, also when the pages fetched before
\* carried entries that were candidates.
C22_FailedFetchAnswersNothing ==
    (Answered /\ FetchFails) =>
        /\ dsState.v.err = "upstream"
        /\ dsState.v.secret = NilSecret
        /\ dsState.v.state = NullModel

\* the lookup without a version has failed at the second page after a first
\* page that carried an entry
C22_FailedAfterCandidate ==
    /\ Answered /\ Requested = ""
    /\ Len(listing) >= 2
    /\ ~listing[1].err /\ Len(listing[1].Value) >= 1
    /\ listing[2].err
    /\ dsState.v.err = "upstream"

(***************************************************************************)
(* Properties of the client's cache, checked under SpecConcurrent.         *)
(***************************************************************************)
\* the goroutines that hold a client of the vault name n
Holding(n) ==
    {g \in Goroutines : goroutines[g].pc \in {"call", "inflight"}
                         /\ goroutines[g].vaultName = n}

\* C23: whatever the interleaving of the callers, NewClient has answered at
\* most one client for each vault name, the cache holds that client from
\* then on, and every caller that got a client for the vault name got the
\* cached one.
C23_OneClientPerVaultName ==
    \A n \in ClientVaultNames :
        /\ constructed[n] <= 1
        /\ secretClients[n] = constructed[n]
        /\ \A g \in Holding(n) : goroutines[g].secretClient = secretClients[n]
                                   /\ goroutines[g].secretClient # 0

\* two callers hold the one client of a vault name at once, both requests
\* on their way
C23_TwoCallersOneClient ==
    \E n \in ClientVaultNames :
        /\ constructed[n] = 1
        /\ \E g, h \in Holding(n) :
              /\ g # h
              /\ goroutines[g].pc = "inflight" /\ goroutines[h].pc = "inflight"
              /\ goroutines[g].secretClient = goroutines[h].secretClient

\* C24: the mutex is held by a goroutine only while it stands between Lock
\* and the return of getSecretClient (the lookup, the construction and the
\* insertion); once getSecretClient has returned, with the cached client,
\* with a new one or with an error, the goroutine does not hold it, so no
\* goroutine holds the mutex while its request of the vault's API (list,
\* set, update, delete) is about to be sent or on its way.
C24_MutexOnlyAroundCache ==
    /\ mutex \in {0} \cup Goroutines
    /\ \A g \in Goroutines :
          /\ mutex = g <=> goroutines[g].pc \in {"check", "construct"}
          /\ goroutines[g].pc \in {"call", "inflight", "failed", "idle", "lock"}
                => mutex # g

\* a request of the vault's API is on its way with the client of a vault name
\* while another goroutine holds the mutex for the same name
C24_InFlightWhileLocked ==
    \E g, h \in Goroutines :
        /\ g # h
        /\ goroutines[g].pc = "inflight"
        /\ goroutines[g].op \in ClientCalls
        /\ mutex = h
        /\ goroutines[h].vaultName = goroutines[g].vaultName

(***************************************************************************)
(* Properties of the records, checked under Spec.                          *)
(***************************************************************************)
\* C25: in every reachable state the version of the record is the version
\* of an ID the vault answered: it names a version the vault stores for the
\* secret of the record, whose ID is the id of the record; it is never
\* unknown, and it is unset only in the record an import has just answered,
\* before the Read that completes it.
C25_VersionIsTheVaults ==
    ~state.nil =>
        IF IsNull(state.v.version)
        THEN last.op = "ImportState"
        ELSE /\ state.v.version.st = "known"
             /\ LET name == ValueString(state.v.name)
                twin == SecretID(name, ValueString(state.v.version))
               IN  /\ \E i \in DOMAIN vault[name] : vault[name][i].ID = twin
                   /\ state.v.id = StringValue(twin)

\* the record shows the second version the vault minted, after an Update
\* rotated the secret
C25_RecordOfSecondVersion ==
    /\ last = Invocation("Update", "", <<"SetSecret">>)
    /\ ~state.nil
    /\ state.v.version = StringValue(VersionIDs[2])
    /\ minted = 2

\* the record was built by setSecretData from an ID of the vault
Built == Whole(state)

\* C26: in every record built by setSecretData, id is versionless_id, "/"
\* and version put together, and versionless_id is id without its last
\* Len(version) + 1 characters, the "/" and the version.
C26_IDIsVersionlessAndVersion ==
    Built =>
        LET id == ValueString(state.v.id)
            version == ValueString(state.v.version)
            versionless == ValueString(state.v.versionless_id)
        IN  /\ version # ""
            /\ id = versionless \o "/" \o version
            /\ versionless = SubSeq(id, 1, Len(id) - Len(version) - 1)
            /\ versionless = VaultURL \o "/secrets/" \o ValueString(state.v.name)

\* a Read has rebuilt the record from a listing entry
C26_BuiltByRead ==
    /\ last = Invocation("Read", "", <<"ListSecretPropertiesVersions">>)
    /\ Built
    /\ state.v.versionless_id = StringValue(VaultURL \o "/secrets/s1")

\* C27: in every record built by setSecretData, resource_versionless_id is
\* key_vault_id, "/secrets/" and the secret's name put together, and
\* resource_id is resource_versionless_id, "/versions/" and the version of
\* the record's version attribute.
C27_ResourceIDsComposed ==
    Built =>
        LET versionless == ValueString(state.v.resource_versionless_id)
        IN  /\ versionless = ValueString(state.v.key_vault_id) \o "/secrets/"
                                \o ValueString(state.v.name)
            /\ ValueString(state.v.resource_id) =
                  versionless \o "/versions/" \o ValueString(state.v.version)
            /\ state.v.resource_id.st = "known"
            /\ state.v.resource_versionless_id.st = "known"

\* a Create has built the record of the version it minted
C27_BuiltByCreate ==
    /\ last = Invocation("Create", "", <<"SetSecret">>)
    /\ Built
    /\ state.v.resource_id =
          StringValue(KeyVaultID \o "/secrets/s1/versions/" \o ValueString(state.v.version))

\* the calls of the vault that change it
MutatingCalls == {"SetSecret", "UpdateSecretProperties", "DeleteSecret"}

\* C28: an invocation of Create, Update or Delete makes at most one call of
\* the vault, a mutating one (SetSecret for Create, SetSecret or
\* UpdateSecretProperties for Update, DeleteSecret for Delete), whether the
\* call succeeds or fails: a failed call is not repeated, and a failed
\* invocation reports the error of its one call.
C28_OneCallNoRetry ==
    last.op \in {"Create", "Update", "Delete"} =>
        /\ Len(last.calls) <= 1
        /\ \A i \in DOMAIN last.calls : last.calls[i] \in MutatingCalls
        /\ last.op = "Create" => \A i \in DOMAIN last.calls : last.calls[i] = "SetSecret"
        /\ last.op = "Delete" => \A i \in DOMAIN last.calls : last.calls[i] = "DeleteSecret"
        /\ last.op = "Update" =>
              \A i \in DOMAIN last.calls :
                 last.calls[i] \in {"SetSecret", "UpdateSecretProperties"}
        /\ last.err = "" => Len(last.calls) = 1

\* a Delete has failed at its call of the vault, the record kept
C28_DeleteFailedOnce ==
    /\ last = Invocation("Delete", "Failed to Delete Secret", <<"DeleteSecret">>)
    /\ Whole(state)

(***************************************************************************)
(* Properties of the identity codec, checked under SpecCodec.              *)
(***************************************************************************)
CodecAnswered == ~codec.nil /\ codec.answered

\* the ID drawn is a well-formed key vault resource ID,
\* /subscriptions/{s}/resourceGroups/{g}/providers/Microsoft.KeyVault/vaults/{name}
WellFormedKeyVaultID ==
    /\ codec.parts.lead = ""
    /\ codec.parts.subscription # ""
    /\ codec.parts.resourceGroup = "/resourceGroups/rg"
    /\ codec.parts.provider = "Microsoft.KeyVault"
    /\ codec.parts.name # ""
    /\ codec.parts.trail = ""

\* C29: extractVaultName answers the embedded name, and no error, for every
\* well-formed key vault resource ID, and the invalid-ID error, and no name,
\* for every other input.
C29_ExtractVaultNameExact ==
    CodecAnswered =>
        IF WellFormedKeyVaultID
        THEN codec.answer = [err |-> "", name |-> codec.parts.name]
        ELSE codec.answer = [err |-> "invalid key vault ID", name |-> ""]

\* C29, as the pattern behaves: the "." of Microsoft.KeyVault stands for any
\* character, so an ID that differs from a well-formed one in that character
\* only is answered like a well-formed one; every other input that is not
\* well-formed (something before /subscriptions, no subscription, no or an
\* empty resource group, another provider, an empty name, a trailing "/" or
\* trailing segments) is answered the invalid-ID error.
C29_ExtractVaultNameUpToDot ==
    CodecAnswered =>
        IF \/ WellFormedKeyVaultID
           \/ /\ codec.parts.provider = "MicrosoftXKeyVault"
              /\ codec.parts.lead = ""
              /\ codec.parts.subscription # ""
              /\ codec.parts.resourceGroup = "/resourceGroups/rg"
              /\ codec.parts.name # ""
              /\ codec.parts.trail = ""
        THEN codec.answer = [err |-> "", name |-> codec.parts.name]
        ELSE codec.answer = [err |-> "invalid key vault ID", name |-> ""]

\* an ID whose provider namespace is not Microsoft.KeyVault was answered a
\* vault name
C29_AcceptedAnotherNamespace ==
    /\ CodecAnswered
    /\ codec.keyVaultID =
          "/subscriptions/sub/resourceGroups/rg/providers/MicrosoftXKeyVault/vaults/kv"
    /\ codec.answer = [err |-> "", name |-> "kv"]

\* the place, in page order, of the first entry of the listing whose Created
\* is the maximum
FirstLatest ==
    LET entries == Entries(listing)
    IN  CHOOSE i \in DOMAIN entries :
            /\ entries[i].Created = Max(CreatedOf(entries))
            /\ \A j \in 1 .. (i - 1) : entries[j].Created < entries[i].Created

\* C30: a lookup without a version over a listing whose pages were all
\* fetched answers, among the entries that share the maximum Created, the one
\* that comes first in page order.
C30_TieKeepsFirstSeen ==
    (Answered /\ AllFetched /\ Requested = "" /\ Entries(listing) # <<>>) =>
        /\ dsState.v.err = ""
        /\ dsState.v.secret.v = Properties(Entries(listing)[FirstLatest])
        /\ ValueString(dsState.v.state.version) =
              IDVersion(Entries(listing)[FirstLatest].ID)

\* the lookup without a version has answered the first of two entries of
\* different versions, on different pages, that share the maximum Created
C30_TieAcrossPages ==
    /\ Answered /\ AllFetched /\ Requested = ""
    /\ Len(listing) >= 2
    /\ Len(listing[1].Value) = 1
    /\ \E i \in DOMAIN Entries(listing) :
          /\ i > 1
          /\ Entries(listing)[i].Created = Entries(listing)[1].Created
          /\ Entries(listing)[i].ID # Entries(listing)[1].ID
    /\ Entries(listing)[1].Created = Max(CreatedOf(Entries(listing)))
    /\ dsState.v.err = ""
    /\ IDVersion(dsState.v.secret.v.ID) = IDVersion(listing[1].Value[1].ID)

(***************************************************************************)
(* Properties of the plan and the apply, checked under Spec.               *)
(***************************************************************************)
\* the Update step takes the metadata path: it calls UpdateSecretProperties
MetadataPath == UpdateStep /\ last'.calls = <<"UpdateSecretProperties">>
\* the Update step takes the mint path: it calls SetSecret
MintPath == UpdateStep /\ last'.calls = <<"SetSecret">>
\* the version argument of the metadata path: the version of the plan, ""
\* when the plan leaves it unknown
VersionArgument == ValueString(plan.v.planned.version)

\* C31: an Update that takes the metadata path hands UpdateSecretProperties
\* the version of the prior state as its version argument, whatever the plan
\* it applies, and the record it answers keeps that version.
C31_MetadataPathAddressesPrior ==
    [][MetadataPath =>
          /\ VersionArgument = ValueString(state.v.version)
          /\ Succeeded => state'.v.version = state.v.version]_vars

\* C31, for the plans that name the version: when the plan carries a known
\* version it is the prior state's, it is the version argument, and the
\* record answered keeps it; when the plan leaves the version unknown the
\* argument is empty and the record answered takes the vault's current
\* version.
C31_MetadataPathAddressesPlanned ==
    [][MetadataPath =>
          IF ~IsUnknown(plan.v.planned.version)
          THEN /\ VersionArgument = ValueString(state.v.version)
               /\ Succeeded => state'.v.version = state.v.version
          ELSE /\ VersionArgument = ""
               /\ Succeeded =>
                     state'.v.version = StringValue(IDVersion(Current(PriorVersions).ID))]_vars

(***************************************************************************)
(* Properties of the content type of the record, checked under            *)
(* SpecImport.                                                             *)
(***************************************************************************)
\* a handler that rebuilds the record with setSecretData has answered it
Rebuilt == last.op \in {"Create", "Read", "Update"} /\ last.err = "" /\ Whole(state)
\* the stored version the record was rebuilt from
AnsweredEntry == EntryOf(vault[ValueString(state.v.name)], state.v)

\* C32: the record a handler rebuilt from a vault result that carries no
\* content type has content_type null, and the record rebuilt from a result
\* that carries one has that content type.
C32_NoContentTypeIsNull ==
    Rebuilt =>
        IF AnsweredEntry.ContentType.nil
        THEN IsNull(state.v.content_type)
        ELSE state.v.content_type = StringValue(AnsweredEntry.ContentType.v)

\* C32, as the builder works on the model it is handed: the record a
\* successful Read rebuilt from a vault result that carries no content type
\* has the content_type the prior state had (null, empty or a value), and the
\* record a successful Create, Read or Update rebuilt from a result that
\* carries a content type has that content type.
C32_NoContentTypeKeepsModels ==
    [][((CreateStep \/ ReadStep \/ UpdateStep) /\ Succeeded) =>
          LET e == EntryOf(vault'[ValueString(state'.v.name)], state'.v)
          IN  IF e.ContentType.nil
              THEN ReadStep /\ state'.v.content_type = state.v.content_type
              ELSE state'.v.content_type = StringValue(e.ContentType.v)]_vars

\* a Read has rebuilt a record of content type text/plain from a version that
\* carries no content type
C32_ReadKeptContentType ==
    /\ last = Invocation("Read", "", <<"ListSecretPropertiesVersions">>)
    /\ Whole(state)
    /\ AnsweredEntry.ContentType.nil
    /\ state.v.content_type = StringValue("text/plain")

(***************************************************************************)
(* Properties of the import with a string ID, checked under SpecLegacyID.  *)
(***************************************************************************)
\* the parts the string ID of the import was put together from
PartsOfID == CHOOSE parts \in LegacyIDParts : ComposeLegacyID(parts) = last.req.ID
\* the import was given a string ID, the provider configured with a
\* subscription
ImportedByID == Imported /\ ByID /\ last.req.subscriptionID # ""
\* the ID is a secret URI, https://{vault}.vault.azure.net/secrets/{name}
\* and whatever follows the name
SecretURI(parts) ==
    /\ parts.scheme = "https://"
    /\ parts.vault # ""
    /\ parts.host = ".vault.azure.net"
    /\ parts.collection = "/secrets/"
    /\ parts.name # ""
\* the import asked the Resource Directory for the vault and took the name
\* of the secret from the parts: the name imported is the secret's, and the
\* answer of the directory is for the vault named (its resource ID when it
\* lists one, an error that names the vault when it lists none)
ImportedAs(parts) ==
    /\ last.calls = <<"ResourcesList">>
    /\ last.req.directory \in DirectoryListings(parts.vault)
    /\ last.resp.name = StringValue(parts.name)
    /\ ListsNoVault(last.req.directory) =>
          /\ last.err = "Failed to Get KeyVaults"
          /\ last.detail = KeyVaultNotFound(parts.vault)
    /\ last.err = "" => last.resp.key_vault_id = StringValue(KeyVaultID)
\* the import refused the ID and asked the Resource Directory nothing
RefusedID ==
    /\ last.err = "Invalid ID"
    /\ last.calls = <<>>
    /\ IsNull(last.resp.name)

\* C33: an import with a string ID, the provider configured with a
\* subscription, fails with the invalid-ID error and asks the Resource
\* Directory nothing when the ID is no secret URI of the form
\* https://{vault}.vault.azure.net/secrets/{name}...; for an ID of that form
\* the directory is asked for the vault of the ID and the name imported is
\* the secret name of the ID.
C33_OnlySecretURIsImported ==
    ImportedByID =>
        IF SecretURI(PartsOfID) THEN ImportedAs(PartsOfID) ELSE RefusedID

\* C33, as the pattern behaves: the dots of vault.azure.net after the first
\* stand for any character, so an ID whose host differs from a vault's in
\* those characters only is imported like a secret URI; every other ID that
\* is no secret URI is refused.
C33_SecretURIsUpToDots ==
    ImportedByID =>
        IF \/ SecretURI(PartsOfID)
           \/ SecretURI([PartsOfID EXCEPT !.host = ".vault.azure.net"])
              /\ PartsOfID.host \in {".vaultXazure.net", ".vault.azureXnet"}
        THEN ImportedAs(PartsOfID) ELSE RefusedID

\* an ID whose host is not under vault.azure.net was imported as the secret
\* s1 of the vault kv
C33_ImportedAnotherHost ==
    /\ ImportedByID
    /\ last.req.ID = "https://kv.vaultXazure.net/secrets/s1/f3a"
    /\ last.calls = <<"ResourcesList">>
    /\ last.err = ""
    /\ ~state.nil
    /\ state.v.name = StringValue("s1")
    /\ state.v.key_vault_id = StringValue(KeyVaultID)

(***************************************************************************)
(* Properties of the calls with a malformed key vault ID, checked under    *)
(* SpecConcurrent.                                                         *)
(***************************************************************************)
\* the key vault IDs of the callers that are vault resource IDs,
\* /subscriptions/{s}/resourceGroups/{g}/providers/Microsoft.KeyVault/vaults/{name}
VaultResourceIDs ==
    {KeyVaultID,
     "/subscriptions/sub/resourceGroups/rg2/providers/Microsoft.KeyVault/vaults/kv",
     "/subscriptions/sub/resourceGroups/rg/providers/Microsoft.KeyVault/vaults/kv2"}
\* the ID that differs from a vault resource ID in the "." of the provider
\* namespace only
OtherNamespaceID ==
    "/subscriptions/sub/resourceGroups/rg/providers/MicrosoftXKeyVault/vaults/kv"

\* the step is goroutine g starting a call of the client with an ID of ids
Calls(g, ids) ==
    /\ goroutines[g].pc = "idle"
    /\ goroutines'[g].pc # "idle"
    /\ \E keyVaultID \in ids : CallClient(g, goroutines'[g].op, keyVaultID)
\* the call goroutine g starts ends in getSecretClient with the invalid-ID
\* error, the mutex and the cache left as they were
Refused(g) ==
    /\ goroutines'[g].op \in ClientCalls
    /\ goroutines'[g].pc = "failed"
    /\ goroutines'[g].err = "invalid key vault ID"
    /\ goroutines'[g].secretClient = 0
    /\ <<mutex, secretClients, constructed>>' = <<mutex, secretClients, constructed>>
\* a goroutine whose call has failed sends nothing and returns, the mutex and
\* the cache left as they were
FailedReturns(g) ==
    goroutines[g].pc = "failed" =>
        /\ goroutines'[g].pc \in {"failed", "idle"}
        /\ goroutines'[g].pc = "idle" =>
              <<mutex, secretClients, constructed>>' =
                 <<mutex, secretClients, constructed>>

\* C34: a call of GetSecretProperties, SetSecret, UpdateSecretProperties or
\* DeleteSecret with a key vault ID that is not a vault resource ID (a
\* trailing segment, another provider namespace) ends in getSecretClient
\* with the invalid-ID error: the mutex and the cache are left as they were,
\* no client is constructed, and the goroutine sends no request of the
\* vault's API before the call returns.
C34_MalformedIDCallsNothing ==
    [][\A g \in Goroutines :
          /\ Calls(g, ClientKeyVaultIDs \ VaultResourceIDs) => Refused(g)
          /\ FailedReturns(g)]_vars

\* C34, for the IDs keyVaultIDRegex refuses: the call with the trailing
\* segment ends with the invalid-ID error, the mutex and the cache left as
\* they were; the ID of another provider namespace, which the "." of the
\* pattern lets through, goes on to lock the cache for the client of the
\* vault it names.
C34_RefusedIDCallsNothing ==
    [][\A g \in Goroutines :
          /\ Calls(g, ClientKeyVaultIDs \ (VaultResourceIDs \cup {OtherNamespaceID}))
                => Refused(g)
          /\ Calls(g, {OtherNamespaceID}) =>
                goroutines'[g].pc = "lock" /\ goroutines'[g].vaultName = "kv"
          /\ FailedReturns(g)]_vars

\* UpdateSecretProperties was refused a malformed key vault ID while the
\* cache holds the client another caller constructed and uses
C34_RefusedBesideCachedClient ==
    \E g, h \in Goroutines :
        /\ goroutines[g].pc = "failed"
        /\ goroutines[g].op = "UpdateSecretProperties"
        /\ goroutines[g].err = "invalid key vault ID"
        /\ goroutines[g].vaultName = ""
        /\ goroutines[h].pc = "inflight"
        /\ secretClients[goroutines[h].vaultName] = 1

(***************************************************************************)
(* Properties of the agreement of plan and apply, checked under Spec.      *)
(***************************************************************************)
\* the configuration of the plan applied gives value_wo and value_wo_version
\* as known values
KnownConfig ==
    /\ plan.v.config.value_wo.st = "known"
    /\ plan.v.config.value_wo_version.st = "known"
\* the plan leaves id, resource_id and version unknown, or carries all three
MarkedUnknown ==
    /\ IsUnknown(plan.v.planned.id)
    /\ IsUnknown(plan.v.planned.resource_id)
    /\ IsUnknown(plan.v.planned.version)
Pinned ==
    /\ plan.v.planned.id.st = "known"
    /\ plan.v.planned.resource_id.st = "known"
    /\ plan.v.planned.version.st = "known"

\* C35: for a plan made from a configuration with known value_wo and
\* value_wo_version, the plan leaves id, resource_id and version unknown
\* exactly when the Update that applies it calls SetSecret, and carries all
\* three exactly when that Update calls UpdateSecretProperties; the id,
\* resource_id and version a successful Update writes for a plan that carries
\* them are the planned ones.
C35_PlanAndApplyAgree ==
    [][(UpdateStep /\ KnownConfig) =>
          /\ MarkedUnknown \/ Pinned
          /\ MarkedUnknown <=> last'.calls = <<"SetSecret">>
          /\ Pinned <=> last'.calls = <<"UpdateSecretProperties">>
          /\ (Pinned /\ Succeeded) =>
                /\ state'.v.id = plan.v.planned.id
                /\ state'.v.resource_id = plan.v.planned.resource_id
                /\ state'.v.version = plan.v.planned.version]_vars

\* an Update has written new tags to a version that is not the vault's
\* current one, the only plan that reaches such a record with the version
\* known being a pinned one: the record still names that version
C35_AppliedPinnedToOlder ==
    /\ last = Invocation("Update", "", <<"UpdateSecretProperties">>)
    /\ Whole(state)
    /\ Len(vault[ValueString(state.v.name)]) >= 2
    /\ state.v.version = StringValue(ForeignVersion)
    /\ state.v.tags = MapValue({<<"environment", "test">>})
    /\ vault[ValueString(state.v.name)][1].Tags = Ptr({<<"environment", "test">>})

(***************************************************************************)
(* Properties of a configuration applied twice, checked under Spec.        *)
(***************************************************************************)
\* the plan the orchestrator makes of the configuration just applied for the
\* record the Update step answered
PlannedAgain ==
    NullifyWriteOnly(ModifyPlan(Some(plan.v.config), state',
                                ProposedPlan(plan.v.config, state'.v)))
\* the version of the secret a metadata update of the plan p would address,
\* and the version the record names, as places in the vault's version list
AddressedBy(p) == TargetIndex(NewVersions, ValueString(p.version))

\* C36: the record a successful Update answers has the value_wo_version of
\* the configuration applied; so the plan of the same configuration for that
\* record either changes nothing, and nothing is applied, or is applied on
\* the metadata path (its value_wo_version is the record's) to the version
\* the record names: a second apply mints nothing and the record keeps its
\* version.
C36_SecondApplyMintsNothing ==
    [][(UpdateStep /\ Succeeded /\ plan.v.config.value_wo_version.st = "known") =>
          /\ state'.v.value_wo_version = plan.v.config.value_wo_version
          /\ \/ PlannedAgain = state'.v
             \/ /\ ~valueWOVersionChanged(ValueInt32(state'.v.value_wo_version),
                                          PlannedAgain)
                /\ AddressedBy(PlannedAgain) = AddressedBy(state'.v)
                /\ AddressedBy(state'.v) # 0]_vars

\* an Update has minted the second version of the secret for a record of
\* value_wo_version 2: the first apply of a configuration that rotates
C36_FirstApplyMinted ==
    /\ last = Invocation("Update", "", <<"SetSecret">>)
    /\ Whole(state)
    /\ state.v.value_wo_version = Int32Value(2)
    /\ minted = 2
    /\ state.v.version = StringValue(VersionIDs[2])

(***************************************************************************)
(* Properties of the update of an imported secret, checked under           *)
(* SpecReimport.                                                           *)
(***************************************************************************)
\* the Update step applies a plan to a record that an import answered and
\* that no Create or Update has answered anew since, the configured
\* value_wo_version known
UpdateOfImported ==
    /\ UpdateStep
    /\ ~importedRecord.nil
    /\ plan.v.config.value_wo_version.st = "known"

\* C37: the first Update of an imported record takes the metadata path
\* (UpdateSecretProperties, nothing minted) exactly when the configured
\* value_wo_version is 1 and the mint path (SetSecret) for any other
\* configured value, whatever value_wo_version the secret was created with.
C37_ImportedBaselineIsOne ==
    [][UpdateOfImported =>
          /\ state.v.value_wo_version = Int32Value(1)
          /\ IF plan.v.config.value_wo_version = Int32Value(1)
             THEN /\ last'.calls = <<"UpdateSecretProperties">>
                  /\ minted' = minted
             ELSE /\ last'.calls = <<"SetSecret">>
                  /\ Succeeded => minted' = minted + 1]_vars

\* a secret created with value_wo_version 2 was imported, and the Update of
\* the same value_wo_version 2 has minted a second version
C37_RotatedAfterImport ==
    /\ last = Invocation("Update", "", <<"SetSecret">>)
    /\ ~createdRecord.nil
    /\ createdRecord.v.value_wo_version = Int32Value(2)
    /\ importedRecord.nil
    /\ Whole(state)
    /\ state.v.value_wo_version = Int32Value(2)
    /\ state.v.name = createdRecord.v.name
    /\ state.v.version # createdRecord.v.version
    /\ minted = 2

(***************************************************************************)
(* Properties of the instances that share one client, checked under        *)
(* SpecShared.                                                             *)
(***************************************************************************)
\* the calls of the client that write to the vault
WritingCalls == {"SetSecret", "UpdateSecretProperties", "DeleteSecret"}
\* caller g's call in flight returns in the step
Returns(g) == goroutines[g].pc = "inflight" /\ goroutines'[g].pc = "idle"

\* C38: whatever the interleaving of the calls of instances on distinct
\* (vault, secret name) pairs that share one client, the versions and the
\* metadata of a secret change only in a step in which a writing call of the
\* instance configured for that very secret returns; the calls of the other
\* instances, and every GetSecretProperties, leave it as it is.
C38_OtherSecretsUntouched ==
    [][\A k \in SharedSecrets :
          secrets'[k] # secrets[k] =>
              \E g \in Goroutines :
                  /\ SecretOf(instances[g]) = k
                  /\ Returns(g)
                  /\ goroutines[g].op \in WritingCalls]_vars

\* one instance has had its secret created while the DeleteSecret of another
\* instance of the same vault, with the cached client, is in flight and that
\* instance's secret still holds the version it held
C38_StoredBesideCallInFlight ==
    /\ instances # NoInstances
    /\ \E g, h \in Goroutines :
          /\ g # h
          /\ instances[g].keyVaultID = instances[h].keyVaultID
          /\ goroutines[g].pc = "idle" /\ goroutines[g].calls = 1
          /\ Len(secrets[SecretOf(instances[g])]) = 1
          /\ secrets[SecretOf(instances[g])][1].Value \in SecretValues
          /\ secrets[SecretOf(instances[g])][1].Tags = Ptr({})
          /\ goroutines[h].pc = "inflight" /\ goroutines[h].op = "DeleteSecret"
          /\ goroutines[h].secretClient = secretClients[goroutines[h].vaultName]
          /\ secrets[SecretOf(instances[h])] = <<ForeignShared(SecretOf(instances[h]))>>

====
